---- MODULE Spec2Model ----
(***************************************************************************)
(* The skill-recall tracker of pi-extensions/skill-recall: the pure        *)
(* functions of skill-recall.ts (isSkillPath, extractReadSkillsFromEntries,*)
(* buildNudgeMessage, parseSkillsFromSystemPrompt) and the four event      *)
(* handlers of index.ts (session_start, tool_call, session_compact,        *)
(* before_agent_start).                                                    *)
(*                                                                         *)
(* A JavaScript string is a sequence of atoms.  The atom "/" is the path   *)
(* separator, the atom "\n" is the line terminator, a tag such as          *)
(* "<skill>" is one atom, and every other atom stands for a piece of text  *)
(* that contains neither a separator, a line terminator nor a tag.         *)
(* A Map is the sequence of its [key, value] entries in insertion order.   *)
(***************************************************************************)
EXTENDS Integers, Sequences, FiniteSets, TLC

VARIABLES
    knownSkills,    \* index.ts: let knownSkills: KnownSkill[]
    readSkills,     \* index.ts: let readSkills: Map<string, TrackedSkill>
    pendingReload,  \* index.ts: let pendingReload: boolean
    lastEvent,      \* the event delivered last, its input and what the handler returned
    hist,           \* history of the run: counts of compactions, turn starts and nudges
    probe           \* the call under test of the specifications of the pure functions

vars == <<knownSkills, readSkills, pendingReload, lastEvent, hist, probe>>

\* JavaScript's undefined.
Undefined == [undefined |-> TRUE]

\* The empty string.
EmptyString == <<>>

----------------------------------------------------------------------------
\* Strings

StartsWith(s, prefix) ==
    /\ Len(prefix) <= Len(s)
    /\ SubSeq(s, 1, Len(prefix)) = prefix

\* The index of the last "/" of s, 0 when s holds none.
LastSlash(s) ==
    LET at == {i \in 1..Len(s) : s[i] = "/"}
    IN  IF at = {} THEN 0 ELSE CHOOSE i \in at : \A j \in at : j <= i

\* The directory as path.dirname gives it: the directory of a file directly
\* under the root is "/".
SkillDirname(filePath) ==
    LET i == LastSlash(filePath)
    IN  IF i = 0 \/ i = Len(filePath)
        THEN filePath
        ELSE IF i = 1 THEN <<"/">> ELSE SubSeq(filePath, 1, i - 1)

\* filePath.replace(/\/[^/]+$/, ""): the last "/" and the non-empty run of
\* non-separators after it are removed; a string with no "/" or ending in "/"
\* is left as it is.
SkillDir(filePath) ==
    LET i == LastSlash(filePath)
    IN  IF i = 0 \/ i = Len(filePath)
        THEN filePath
        ELSE SubSeq(filePath, 1, i - 1)

\* The index of the first occurrence of atom in s at or after from, 0 if none.
IndexOf(s, atom, from) ==
    LET at == {i \in from..Len(s) : s[i] = atom}
    IN  IF at = {} THEN 0 ELSE CHOOSE i \in at : \A j \in at : i <= j

----------------------------------------------------------------------------
\* skill-recall.ts: isSkillPath

TrackedOf(skill) ==
    [name |-> skill.name, description |-> skill.description, path |-> skill.filePath]

RECURSIVE isSkillPathLast(_, _)
\* isSkillPath with the loop run to its end: the last matching entry wins.
isSkillPathLast(path, skills) ==
    IF skills = <<>>
    THEN Undefined
    ELSE LET skill == Head(skills)
             skillDir == SkillDir(skill.filePath)
             later == isSkillPathLast(path, Tail(skills))
         IN  IF later # Undefined
             THEN later
             ELSE IF path = skill.filePath
                  THEN TrackedOf(skill)
                  ELSE IF StartsWith(path, skillDir \o <<"/">>) /\ path # skillDir
                       THEN TrackedOf(skill)
                       ELSE Undefined

RECURSIVE isSkillPathOwnPath(_, _)
\* isSkillPath returning the candidate path as the path of the match.
isSkillPathOwnPath(path, skills) ==
    IF skills = <<>>
    THEN Undefined
    ELSE LET skill == Head(skills)
             skillDir == SkillDir(skill.filePath)
         IN  IF path = skill.filePath
             THEN TrackedOf(skill)
             ELSE IF StartsWith(path, skillDir \o <<"/">>) /\ path # skillDir
                  THEN [name |-> skill.name, description |-> skill.description, path |-> path]
                  ELSE isSkillPathOwnPath(path, Tail(skills))

RECURSIVE isSkillPathDirOnly(_, _)
\* isSkillPath without the test for the exact file.
isSkillPathDirOnly(path, skills) ==
    IF skills = <<>>
    THEN Undefined
    ELSE LET skill == Head(skills)
             skillDir == SkillDir(skill.filePath)
         IN  IF StartsWith(path, skillDir \o <<"/">>) /\ path # skillDir
             THEN TrackedOf(skill)
             ELSE isSkillPathDirOnly(path, Tail(skills))

RECURSIVE isSkillPathNoSeparator(_, _)
\* isSkillPath testing path.startsWith(skillDir), without the separator.
isSkillPathNoSeparator(path, skills) ==
    IF skills = <<>>
    THEN Undefined
    ELSE LET skill == Head(skills)
             skillDir == SkillDir(skill.filePath)
         IN  IF path = skill.filePath
             THEN TrackedOf(skill)
             ELSE IF StartsWith(path, skillDir) /\ path # skillDir
                  THEN TrackedOf(skill)
                  ELSE isSkillPathNoSeparator(path, Tail(skills))

RECURSIVE isSkillPath(_, _)
isSkillPath(path, skills) ==
    IF skills = <<>>
    THEN Undefined
    ELSE LET skill == Head(skills)
             skillDir == SkillDir(skill.filePath)
         IN  IF path = skill.filePath
             THEN TrackedOf(skill)
             ELSE IF StartsWith(path, skillDir \o <<"/">>) /\ path # skillDir
                  THEN TrackedOf(skill)
                  ELSE isSkillPath(path, Tail(skills))

----------------------------------------------------------------------------
\* Map<string, TrackedSkill>

MapHas(map, key) == \E i \in 1..Len(map) : map[i].key = key

\* map.set(key, value) as the push of a list: an entry is added on every call.
MapSetAppend(map, key, value) ==
    Append(map, [key |-> key, value |-> value])

\* map.set(key, value) as a delete followed by a set: the key moves to the end.
MapSetMoveToEnd(map, key, value) ==
    SelectSeq(map, LAMBDA entry : entry.key # key) \o <<[key |-> key, value |-> value]>>

\* map.set(key, value): an existing key keeps its position and takes the new
\* value, a new key is appended.
MapSet(map, key, value) ==
    IF MapHas(map, key)
    THEN LET i == CHOOSE k \in 1..Len(map) : map[k].key = key
         IN  [map EXCEPT ![i] = [key |-> key, value |-> value]]
    ELSE Append(map, [key |-> key, value |-> value])

MapKeys(map) == {map[i].key : i \in 1..Len(map)}

----------------------------------------------------------------------------
\* skill-recall.ts: extractReadSkillsFromEntries
\*
\* A value of a dynamically typed position is Undefined, Str(s) or Num(n).
\* A branch entry is [type, message], message being Undefined or
\* [role, content]; content is Undefined or Array(blocks); a block is
\* [type, name, arguments]; arguments is Undefined or [path |-> value].

Str(s) == [type |-> "string", value |-> s]
Num(n) == [type |-> "number", number |-> n]
Array(items) == [type |-> "array", value |-> items]

\* typeof v
TypeOf(v) == IF v = Undefined THEN "undefined" ELSE v.type

\* block.arguments?.path
ArgumentsPath(arguments) ==
    IF arguments = Undefined THEN Undefined ELSE arguments.path

\* ScanBlock without the test of the tool name.
ScanBlockAnyTool(result, block, skills) ==
    IF block.type # "toolCall"
    THEN result
    ELSE LET path == ArgumentsPath(block.arguments)
         IN  IF TypeOf(path) # "string"
             THEN result
             ELSE LET match == isSkillPath(path.value, skills)
                  IN  IF match # Undefined
                      THEN MapSet(result, match.path, match)
                      ELSE result

\* The body of the inner loop for one block.
ScanBlock(result, block, skills) ==
    IF block.type # "toolCall" \/ block.name # Str("read")
    THEN result
    ELSE LET path == ArgumentsPath(block.arguments)
         IN  IF TypeOf(path) # "string"
             THEN result
             ELSE LET match == isSkillPath(path.value, skills)
                  IN  IF match # Undefined
                      THEN MapSet(result, match.path, match)
                      ELSE result

RECURSIVE ScanContent(_, _, _)
ScanContent(result, blocks, skills) ==
    IF blocks = <<>>
    THEN result
    ELSE ScanContent(ScanBlock(result, Head(blocks), skills), Tail(blocks), skills)

\* ScanEntry without the test of the role.
ScanEntryAnyRole(result, entry, skills) ==
    IF entry.type # "message"
    THEN result
    ELSE IF entry.message = Undefined
         THEN result
         ELSE ScanContent(
                result,
                IF entry.message.content = Undefined
                THEN <<>>
                ELSE entry.message.content.value,
                skills)

\* The body of the outer loop for one entry.
ScanEntry(result, entry, skills) ==
    IF entry.type # "message"
    THEN result
    ELSE IF entry.message = Undefined
         THEN result
         ELSE IF entry.message.role # "assistant"
              THEN result
              ELSE ScanContent(
                     result,
                     IF entry.message.content = Undefined
                     THEN <<>>
                     ELSE entry.message.content.value,
                     skills)

RECURSIVE ScanEntries(_, _, _)
ScanEntries(result, entries, skills) ==
    IF entries = <<>>
    THEN result
    ELSE ScanEntries(ScanEntry(result, Head(entries), skills), Tail(entries), skills)

extractReadSkillsFromEntries(entries, skills) ==
    ScanEntries(<<>>, entries, skills)

\* JavaScript's null.
Null == [null |-> TRUE]

\* What a handler that raises leaves the host with.
Thrown == [throws |-> TRUE]

\* The outer loop body raises a TypeError on the entry: entry.type on null,
\* the for...of over a content that cannot be iterated (a number), block.type
\* on null.
EntryThrows(entry) ==
    \/ entry = Null
    \/ /\ entry.type = "message"
       /\ entry.message # Undefined
       /\ entry.message.role = "assistant"
       /\ entry.message.content # Undefined
       /\ \/ TypeOf(entry.message.content) = "number"
          \/ \E b \in 1..Len(entry.message.content.value) :
                entry.message.content.value[b] = Null

\* extractReadSkillsFromEntries raises: entries is undefined, which for...of
\* cannot iterate, or some entry makes the loop body raise.
extractThrows(entries) ==
    \/ entries = Undefined
    \/ \E e \in 1..Len(entries.value) : EntryThrows(entries.value[e])

----------------------------------------------------------------------------
\* skill-recall.ts: buildNudgeMessage

Preamble ==
    <<"[System] Context was compacted. You previously loaded and followed these skills during this session:">>

Directive ==
    <<"REQUIRED", ": Before responding to the user's message, you ", "MUST", " ",
      "re-read", " any skills listed above that are still relevant to your current task using the ",
      "read tool", ". If a skill is no longer relevant, skip it.">>

RECURSIVE SkillLinesReversed(_)
\* SkillLines with the values taken from the last to the first.
SkillLinesReversed(map) ==
    IF map = <<>>
    THEN <<>>
    ELSE LET skill == map[Len(map)].value
         IN  << <<"- ">> \o skill.name \o <<" (">> \o skill.path \o <<")">>,
                <<"  \"">> \o skill.description \o <<"\"">> >>
             \o SkillLinesReversed(SubSeq(map, 1, Len(map) - 1))

RECURSIVE SkillLines(_)
\* The two lines pushed for each value of the map, in iteration order.
SkillLines(map) ==
    IF map = <<>>
    THEN <<>>
    ELSE LET skill == Head(map).value
         IN  << <<"- ">> \o skill.name \o <<" (">> \o skill.path \o <<")">>,
                <<"  \"">> \o skill.description \o <<"\"">> >>
             \o SkillLines(Tail(map))

RECURSIVE Join(_, _)
\* lines.join(sep)
Join(lines, sep) ==
    IF lines = <<>>
    THEN EmptyString
    ELSE IF Len(lines) = 1
         THEN Head(lines)
         ELSE Head(lines) \o sep \o Join(Tail(lines), sep)

\* buildNudgeMessage without the early return for an empty map.
buildNudgeMessageNoGuard(skills) ==
    Join(<<Preamble, EmptyString>> \o SkillLines(skills) \o <<EmptyString, Directive>>,
         <<"\n">>)

\* buildNudgeMessage keeping a count between calls: from the second call on
\* the skills are not listed.
buildNudgeMessageOnce(skills) ==
    IF Len(skills) = 0
    THEN EmptyString
    ELSE IF probe.fn = "buildNudgeMessage" /\ probe.results # <<>>
         THEN Join(<<Preamble, EmptyString, EmptyString, Directive>>, <<"\n">>)
         ELSE Join(<<Preamble, EmptyString>> \o SkillLines(skills) \o <<EmptyString, Directive>>,
                   <<"\n">>)

buildNudgeMessage(skills) ==
    IF Len(skills) = 0
    THEN EmptyString
    ELSE Join(<<Preamble, EmptyString>> \o SkillLines(skills) \o <<EmptyString, Directive>>,
              <<"\n">>)

----------------------------------------------------------------------------
\* skill-recall.ts: parseSkillsFromSystemPrompt

\* block.match(/<open>(.*?)<\/close>/)?.[1] ?? "": the text between the first
\* open tag that is followed on its line by a close tag, and the nearest such
\* close tag; the empty string when there is no match.
RECURSIVE FieldFrom(_, _, _, _)
FieldFrom(block, open, close, from) ==
    LET i == IndexOf(block, open, from)
    IN  IF i = 0
        THEN EmptyString
        ELSE LET j == IndexOf(block, close, i + 1)
                 nl == IndexOf(block, "\n", i + 1)
             IN  IF j # 0 /\ (nl = 0 \/ nl > j)
                 THEN SubSeq(block, i + 1, j - 1)
                 ELSE FieldFrom(block, open, close, i + 1)

Field(block, open, close) == FieldFrom(block, open, close, 1)

\* PushSkill skipping a block whose name is in the list already.
PushSkillDedup(skills, block) ==
    LET name == Field(block, "<name>", "</name>")
        description == Field(block, "<description>", "</description>")
        filePath == Field(block, "<location>", "</location>")
    IN  IF /\ name # EmptyString
           /\ filePath # EmptyString
           /\ \A k \in 1..Len(skills) : skills[k].name # name
        THEN Append(skills, [name |-> name, description |-> description, filePath |-> filePath])
        ELSE skills

\* PushSkill asking for a description as well.
PushSkillNeedsDescription(skills, block) ==
    LET name == Field(block, "<name>", "</name>")
        description == Field(block, "<description>", "</description>")
        filePath == Field(block, "<location>", "</location>")
    IN  IF name # EmptyString /\ description # EmptyString /\ filePath # EmptyString
        THEN Append(skills, [name |-> name, description |-> description, filePath |-> filePath])
        ELSE skills

\* The body of the while loop for one block.
PushSkill(skills, block) ==
    LET name == Field(block, "<name>", "</name>")
        description == Field(block, "<description>", "</description>")
        filePath == Field(block, "<location>", "</location>")
    IN  IF name # EmptyString /\ filePath # EmptyString
        THEN Append(skills, [name |-> name, description |-> description, filePath |-> filePath])
        ELSE skills

RECURSIVE ParseFrom(_, _, _)
\* skillBlockRegex.exec from lastIndex: /<skill>([\s\S]*?)<\/skill>/g
ParseFrom(systemPrompt, lastIndex, skills) ==
    LET i == IndexOf(systemPrompt, "<skill>", lastIndex)
    IN  IF i = 0
        THEN skills
        ELSE LET j == IndexOf(systemPrompt, "</skill>", i + 1)
             IN  IF j = 0
                 THEN skills
                 ELSE ParseFrom(systemPrompt, j + 1,
                                PushSkill(skills, SubSeq(systemPrompt, i + 1, j - 1)))

parseSkillsFromSystemPrompt(systemPrompt) == ParseFrom(systemPrompt, 1, <<>>)

----------------------------------------------------------------------------
\* index.ts: the state of one extension instance and its four handlers
\*
\* The context of session_start is [getSystemPrompt, getBranch]:
\* getSystemPrompt is Undefined (the host has no such method),
\* [throws |-> TRUE], or [returns |-> v] with v Undefined or Str(text);
\* getBranch is what the call ctx.sessionManager.getBranch() does:
\* [throws |-> TRUE], or [returns |-> v] with v Undefined or Array(entries).

\* getKnownSkillsFromContext with a catch that keeps the registry it had.
getKnownSkillsFromContextKeep(ctx) ==
    IF ctx.getSystemPrompt = Undefined
    THEN knownSkills
    ELSE IF "throws" \in DOMAIN ctx.getSystemPrompt
         THEN knownSkills
         ELSE IF ctx.getSystemPrompt.returns = Undefined
              THEN knownSkills
              ELSE parseSkillsFromSystemPrompt(ctx.getSystemPrompt.returns.value)

\* getKnownSkillsFromContext: ctx.getSystemPrompt?.() ?? "" inside try/catch
getKnownSkillsFromContext(ctx) ==
    IF ctx.getSystemPrompt = Undefined
    THEN parseSkillsFromSystemPrompt(EmptyString)
    ELSE IF "throws" \in DOMAIN ctx.getSystemPrompt
         THEN <<>>
         ELSE IF ctx.getSystemPrompt.returns = Undefined
              THEN parseSkillsFromSystemPrompt(EmptyString)
              ELSE parseSkillsFromSystemPrompt(ctx.getSystemPrompt.returns.value)

\* pi.on("session_start", ...) with the history merged into the tracked set
\* instead of replacing it, and the flag left as it was.
session_start_merge(ctx) ==
    LET known == getKnownSkillsFromContext(ctx)
        replayed == ScanEntries(readSkills, ctx.getBranch.returns.value, known)
    IN  /\ knownSkills' = known
        /\ readSkills' = replayed
        /\ pendingReload' = pendingReload

\* The second statement of the session_start handler raises: getBranch()
\* raises, or the scan of what it returns does.
SessionStartThrows(ctx) ==
    \/ "throws" \in DOMAIN ctx.getBranch
    \/ extractThrows(ctx.getBranch.returns)

\* pi.on("session_start", ...) without the reset of the flag.
session_start_keep_flag(ctx) ==
    LET known == getKnownSkillsFromContext(ctx)
    IN  IF SessionStartThrows(ctx)
        THEN /\ knownSkills' = known
             /\ UNCHANGED <<readSkills, pendingReload>>
        ELSE /\ knownSkills' = known
             /\ readSkills' = extractReadSkillsFromEntries(ctx.getBranch.returns.value, known)
             /\ UNCHANGED pendingReload

\* pi.on("session_start", ...): the registry is assigned first; when the
\* second statement raises, the tracked set and the flag are left as they
\* were and the error goes to the host.
session_start(ctx) ==
    LET known == getKnownSkillsFromContext(ctx)
    IN  IF SessionStartThrows(ctx)
        THEN /\ knownSkills' = known
             /\ UNCHANGED <<readSkills, pendingReload>>
        ELSE /\ knownSkills' = known
             /\ readSkills' = extractReadSkillsFromEntries(ctx.getBranch.returns.value, known)
             /\ pendingReload' = FALSE

\* isToolCallEventType("read", event)
isToolCallEventType(toolName, event) == event.toolName = toolName

\* tool_call_result with the tracked set replaced by the match alone.
tool_call_result_reset(skills, known, event) ==
    IF ~isToolCallEventType("read", event)
    THEN skills
    ELSE IF event.input = Undefined
         THEN skills
         ELSE LET path == event.input.path
              IN  IF TypeOf(path) # "string"
                  THEN skills
                  ELSE LET match == isSkillPath(path.value, known)
                       IN  IF match # Undefined
                           THEN <<[key |-> match.path, value |-> match]>>
                           ELSE skills

\* tool_call_result without the test of the tool name.
tool_call_result_any_tool(skills, known, event) ==
    IF event.input = Undefined
    THEN skills
    ELSE LET path == event.input.path
         IN  IF TypeOf(path) # "string"
             THEN skills
             ELSE LET match == isSkillPath(path.value, known)
                  IN  IF match # Undefined
                      THEN MapSet(skills, match.path, match)
                      ELSE skills

\* pi.on("tool_call", ...): the tracked set after the handler has run.  An
\* event with no input object makes event.input.path throw a TypeError before
\* anything is written.
tool_call_result(skills, known, event) ==
    IF ~isToolCallEventType("read", event)
    THEN skills
    ELSE IF event.input = Undefined
         THEN skills
         ELSE LET path == event.input.path
              IN  IF TypeOf(path) # "string"
                  THEN skills
                  ELSE LET match == isSkillPath(path.value, known)
                       IN  IF match # Undefined
                           THEN MapSet(skills, match.path, match)
                           ELSE skills

\* pi.on("tool_call", ...) with the flag cleared by every read.
tool_call_clears(event) ==
    /\ readSkills' = tool_call_result(readSkills, knownSkills, event)
    /\ pendingReload' = (pendingReload /\ ~isToolCallEventType("read", event))
    /\ UNCHANGED knownSkills

\* pi.on("tool_call", ...)
tool_call(event) ==
    /\ readSkills' = tool_call_result(readSkills, knownSkills, event)
    /\ UNCHANGED <<knownSkills, pendingReload>>

\* pi.on("session_compact", ...) without the test of readSkills.size
session_compact_always ==
    /\ pendingReload' = TRUE
    /\ UNCHANGED <<knownSkills, readSkills>>

\* pi.on("session_compact", ...)
session_compact ==
    /\ pendingReload' = IF Len(readSkills) > 0 THEN TRUE ELSE pendingReload
    /\ UNCHANGED <<knownSkills, readSkills>>

\* The returned message with display off.
NudgeMessageHidden(nudge) ==
    [message |-> [customType |-> "skill-recall-nudge", content |-> nudge, display |-> FALSE]]

NudgeMessage(nudge) ==
    [message |-> [customType |-> "skill-recall-nudge", content |-> nudge, display |-> TRUE]]

\* The returned value with the nudge built from the tracked set as the last
\* compaction found it.
NudgeResultAtCompact ==
    LET nudge == buildNudgeMessage(probe.atCompact)
    IN  IF nudge = EmptyString THEN Undefined ELSE NudgeMessage(nudge)

\* The value pi.on("before_agent_start", ...) returns once the flag was found set.
NudgeResult ==
    LET nudge == buildNudgeMessage(readSkills)
    IN  IF nudge = EmptyString THEN Undefined ELSE NudgeMessage(nudge)

\* pi.on("before_agent_start", ...) with the flag left set after the nudge.
before_agent_start_keep(result) ==
    IF ~pendingReload
    THEN /\ result = Undefined
         /\ UNCHANGED <<knownSkills, readSkills, pendingReload>>
    ELSE /\ result = NudgeResult
         /\ UNCHANGED <<knownSkills, readSkills, pendingReload>>

\* pi.on("before_agent_start", ...) that clears the flag and returns nothing.
before_agent_start_silent(result) ==
    /\ result = Undefined
    /\ pendingReload' = FALSE
    /\ UNCHANGED <<knownSkills, readSkills>>

\* pi.on("before_agent_start", ...) that empties the tracked set once the
\* nudge is built.
before_agent_start_forget(result) ==
    IF ~pendingReload
    THEN /\ result = Undefined
         /\ UNCHANGED <<knownSkills, readSkills, pendingReload>>
    ELSE /\ pendingReload' = FALSE
         /\ result = NudgeResult
         /\ readSkills' = <<>>
         /\ UNCHANGED knownSkills

\* pi.on("before_agent_start", ...); result is what the handler returns.
before_agent_start(result) ==
    IF ~pendingReload
    THEN /\ result = Undefined
         /\ UNCHANGED <<knownSkills, readSkills, pendingReload>>
    ELSE /\ pendingReload' = FALSE
         /\ result = NudgeResult
         /\ UNCHANGED <<knownSkills, readSkills>>

----------------------------------------------------------------------------
\* The inputs of the tracker

TddFile == <<"/", "skills", "/", "tdd", "/", "SKILL.md">>
TddMocking == <<"/", "skills", "/", "tdd", "/", "mocking.md">>
TddDir == <<"/", "skills", "/", "tdd">>
DebuggingFile == <<"/", "skills", "/", "debugging", "/", "SKILL.md">>
SkillsReadme == <<"/", "skills", "/", "README.md">>

TddName == <<"tdd">>
TddDescription == <<"Use when implementing features.">>
DebuggingName == <<"debugging">>
DebuggingDescription == <<"Debug stuff.">>

\* One <skill> block of the <available_skills> listing.
SkillBlock(name, description, location) ==
    <<"<skill>", "\n", "<name>">> \o name \o <<"</name>", "\n", "<description>">>
    \o description \o <<"</description>", "\n", "<location>">> \o location
    \o <<"</location>", "\n", "</skill>">>

AvailableSkills(blocks) ==
    <<"<available_skills>", "\n">> \o blocks \o <<"\n", "</available_skills>">>

PromptNoSkills == <<"You are an assistant.">>

PromptTdd ==
    <<"Some preamble text.", "\n", "\n">>
    \o AvailableSkills(SkillBlock(TddName, TddDescription, TddFile))
    \o <<"\n", "\n", "More text.">>

PromptTwo ==
    AvailableSkills(SkillBlock(TddName, TddDescription, TddFile) \o <<"\n">>
                    \o SkillBlock(DebuggingName, DebuggingDescription, DebuggingFile))

\* A block with no location, then a well-formed one.
PromptNoLocation ==
    AvailableSkills(<<"<skill>", "\n", "<name>">> \o TddName \o <<"</name>", "\n", "</skill>", "\n">>
                    \o SkillBlock(DebuggingName, DebuggingDescription, DebuggingFile))

Prompts == {PromptNoSkills, PromptTdd, PromptTwo, PromptNoLocation}

SystemPromptAccessors ==
    {Undefined, [throws |-> TRUE], [returns |-> Undefined]}
    \cup {[returns |-> Str(text)] : text \in Prompts}

ReadBlock(path) ==
    [type |-> "toolCall", name |-> Str("read"), arguments |-> [path |-> path]]

AssistantMessage(blocks) ==
    [type |-> "message", message |-> [role |-> "assistant", content |-> Array(blocks)]]

\* The kinds of branch entries the scanner meets.
EntrySamples ==
    { AssistantMessage(<<ReadBlock(Str(TddFile))>>),
      AssistantMessage(<<ReadBlock(Str(TddMocking))>>),
      AssistantMessage(<<ReadBlock(Str(DebuggingFile))>>),
      AssistantMessage(<<ReadBlock(Str(SkillsReadme))>>),
      AssistantMessage(<<ReadBlock(Str(DebuggingFile)), ReadBlock(Str(TddFile))>>),
      AssistantMessage(<<[type |-> "toolCall", name |-> Str("edit"),
                          arguments |-> [path |-> Str(TddFile)]]>>),
      AssistantMessage(<<[type |-> "text", name |-> Undefined, arguments |-> Undefined],
                         ReadBlock(Num(42))>>),
      AssistantMessage(<<ReadBlock(Undefined),
                         [type |-> "toolCall", name |-> Str("read"), arguments |-> Undefined]>>),
      [type |-> "message", message |-> [role |-> "assistant", content |-> Undefined]],
      [type |-> "message", message |-> [role |-> "user",
                                         content |-> Array(<<ReadBlock(Str(DebuggingFile))>>)]],
      [type |-> "message", message |-> Undefined],
      [type |-> "compaction", message |-> Undefined],
      [type |-> "custom", message |-> [role |-> "assistant",
                                        content |-> Array(<<ReadBlock(Str(TddFile))>>)]] }

\* Branches a session is started or restored with.
BranchSamples ==
    { <<>>,
      <<AssistantMessage(<<ReadBlock(Str(TddFile))>>)>>,
      <<AssistantMessage(<<ReadBlock(Str(TddMocking))>>),
        [type |-> "compaction", message |-> Undefined],
        AssistantMessage(<<ReadBlock(Str(DebuggingFile))>>)>>,
      <<AssistantMessage(<<ReadBlock(Str(DebuggingFile)), ReadBlock(Str(TddFile))>>)>>,
      <<[type |-> "message", message |-> [role |-> "user",
                                           content |-> Array(<<ReadBlock(Str(DebuggingFile))>>)]],
        AssistantMessage(<<ReadBlock(Str(SkillsReadme))>>)>> }

\* The contexts of a host that keeps to the types of its interface.
Contexts ==
    [getSystemPrompt : SystemPromptAccessors,
     getBranch : {[returns |-> Array(branch)] : branch \in BranchSamples}]

ToolCallEvents ==
    [toolName : {"read", "edit"},
     input : [path : {Undefined, Num(42)}
                     \cup {Str(p) : p \in {TddFile, TddMocking, TddDir,
                                            DebuggingFile, SkillsReadme}}]]

----------------------------------------------------------------------------
\* The tracker as a state machine: the host delivers one event at a time.

MaxCompactions == 2
MaxTurns == 2

NoEvent == [type |-> "none", input |-> Undefined, result |-> Undefined]
NoProbe == [fn |-> "none"]

HistInit ==
    [compactions |-> 0,         \* session_compact events so far
     nudges |-> 0,              \* nudge messages returned so far
     turnsSince |-> 0,          \* before_agent_start events since the last compaction
     nudgesSince |-> 0,         \* nudge messages since the last compaction
     compactRun |-> 0,          \* compactions in a row, up to the last one, with no turn start between
     trackedAtCompact |-> FALSE,\* the tracked set was non-empty at the last compaction
     restartSince |-> FALSE]    \* a session_start came after the last compaction

Init ==
    /\ knownSkills = <<>>
    /\ readSkills = <<>>
    /\ pendingReload = FALSE
    /\ lastEvent = NoEvent
    /\ hist = HistInit
    /\ probe = NoProbe

SessionStart ==
    \E ctx \in Contexts :
        /\ session_start(ctx)
        /\ lastEvent' = [type |-> "session_start", input |-> ctx, result |-> Undefined]
        /\ hist' = [hist EXCEPT !.restartSince = TRUE]
        /\ UNCHANGED probe

ToolCall ==
    \E event \in ToolCallEvents :
        /\ tool_call(event)
        /\ lastEvent' = [type |-> "tool_call", input |-> event, result |-> Undefined]
        /\ UNCHANGED <<hist, probe>>

Compact ==
    /\ hist.compactions < MaxCompactions
    /\ session_compact
    /\ lastEvent' = [type |-> "session_compact", input |-> Undefined, result |-> Undefined]
    /\ hist' = [hist EXCEPT !.compactions = @ + 1,
                            !.turnsSince = 0,
                            !.nudgesSince = 0,
                            !.compactRun = IF hist.turnsSince = 0 THEN @ + 1 ELSE 1,
                            !.trackedAtCompact = Len(readSkills) > 0,
                            !.restartSince = FALSE]
    /\ UNCHANGED probe

TurnStart ==
    /\ hist.turnsSince < MaxTurns
    /\ \E result \in {Undefined, NudgeResult} :
        /\ before_agent_start(result)
        /\ lastEvent' = [type |-> "before_agent_start", input |-> Undefined, result |-> result]
        /\ hist' = [hist EXCEPT !.turnsSince = @ + 1,
                                !.nudges = @ + (IF result = Undefined THEN 0 ELSE 1),
                                !.nudgesSince = @ + (IF result = Undefined THEN 0 ELSE 1)]
    /\ UNCHANGED probe

Next == SessionStart \/ ToolCall \/ Compact \/ TurnStart

Spec == Init /\ [][Next]_vars

----------------------------------------------------------------------------
\* Properties of the tracker

\* A step of the handler of the event type t.
StepOf(t) == lastEvent'.type = t /\ vars' # vars

\* sub occurs in s.
Contains(s, sub) ==
    \E i \in 1..(Len(s) - Len(sub) + 1) : SubSeq(s, i, i + Len(sub) - 1) = sub

Nudged == lastEvent.type = "before_agent_start" /\ lastEvent.result # Undefined

\* C1: at most one nudge per compaction event.  The nudges emitted so far
\* never outnumber the compactions so far; after the last compaction (also
\* after several compactions in a row) at most one nudge is emitted, and only
\* by the first turn start that follows; that turn start does emit it when the
\* compaction found the tracked set non-empty and no session start intervened.
C1_AtMostOneNudgePerCompaction ==
    /\ hist.nudges <= hist.compactions
    /\ hist.nudgesSince <= 1
    /\ Nudged => hist.turnsSince = 1 /\ hist.compactions > 0
    /\ (hist.compactions > 0 /\ hist.trackedAtCompact /\ ~hist.restartSince
          /\ hist.turnsSince >= 1)
        => hist.nudgesSince = 1

\* Two compactions in a row, then two turn starts: one nudge in all.
C1_Witness ==
    /\ hist.compactRun = 2
    /\ hist.compactions = 2
    /\ hist.turnsSince = 2
    /\ hist.nudges = 1

\* C2 as stated: no handler, session start included, ever removes an entry
\* of the tracked set or makes it smaller.
C2_NeverShrinks ==
    [][/\ MapKeys(readSkills) \subseteq MapKeys(readSkills')
       /\ Len(readSkills) <= Len(readSkills')]_vars

\* C2 amended: the tool-call, compaction and turn-start handlers never remove
\* an entry of the tracked set nor move or change one, and never make the set
\* smaller; session start replaces the set by the replay of the branch it is
\* given.
C2_ShrinksOnlyAtSessionStart ==
    [][/\ lastEvent'.type # "session_start"
          => /\ Len(readSkills) <= Len(readSkills')
             /\ SubSeq(readSkills', 1, Len(readSkills)) = readSkills
       /\ StepOf("session_start")
          => readSkills' = extractReadSkillsFromEntries(lastEvent'.input.getBranch.returns.value, knownSkills')
      ]_vars

\* Two tracked skills have survived a compaction and a turn start.
C2_Witness ==
    /\ lastEvent.type = "before_agent_start"
    /\ hist.compactions > 0
    /\ ~hist.restartSince
    /\ Len(readSkills) = 2

TddRegistry ==
    <<[name |-> TddName, description |-> TddDescription, filePath |-> TddFile]>>

TddTracked ==
    <<[key |-> TddFile,
       value |-> [name |-> TddName, description |-> TddDescription, path |-> TddFile]]>>

ReadOf(path) == [toolName |-> "read", input |-> [path |-> Str(path)]]

\* C3: the end-to-end trace.  With the registry of the one skill tdd and an
\* empty tracked set, a read of /skills/tdd/mocking.md leaves exactly one
\* entry, keyed /skills/tdd/SKILL.md and named tdd; a compaction then sets the
\* flag; the turn start then returns a message holding the name, the canonical
\* path, the description and a MUST or REQUIRED directive, and clears the
\* flag; the turn start right after a nudge returns nothing.
C3_EndToEnd ==
    [][/\ (/\ knownSkills = TddRegistry
           /\ readSkills = <<>>
           /\ StepOf("tool_call")
           /\ lastEvent'.input = ReadOf(TddMocking))
          => readSkills' = TddTracked
       /\ (readSkills = TddTracked /\ StepOf("session_compact"))
          => pendingReload'
       /\ (readSkills = TddTracked /\ pendingReload /\ StepOf("before_agent_start"))
          => /\ lastEvent'.result # Undefined
             /\ lastEvent'.result.message.customType = "skill-recall-nudge"
             /\ Contains(lastEvent'.result.message.content, TddName)
             /\ Contains(lastEvent'.result.message.content, TddFile)
             /\ Contains(lastEvent'.result.message.content, TddDescription)
             /\ \/ Contains(lastEvent'.result.message.content, <<"MUST">>)
                \/ Contains(lastEvent'.result.message.content, <<"REQUIRED">>)
             /\ ~pendingReload'
       /\ (Nudged /\ StepOf("before_agent_start"))
          => lastEvent'.result = Undefined
      ]_vars

\* The state the trace ends in: one compaction, one nudge, a second turn
\* start that returned nothing.
C3_Witness ==
    /\ knownSkills = TddRegistry
    /\ readSkills = TddTracked
    /\ hist.compactions = 1
    /\ hist.nudges = 1
    /\ hist.turnsSince = 2
    /\ lastEvent.type = "before_agent_start"
    /\ lastEvent.result = Undefined
    /\ ~pendingReload

\* C4: a compaction leaves the flag true exactly when the tracked set is
\* non-empty at that moment (with an empty set the tracker stays idle), and the
\* flag goes from false to true in no other handler.
C4_FlagSetOnlyByCompaction ==
    [][/\ StepOf("session_compact") => (pendingReload' <=> Len(readSkills) > 0)
       /\ (~pendingReload /\ pendingReload') => lastEvent'.type = "session_compact"
      ]_vars

\* A compaction has found a tracked skill and set the flag.
C4_Witness ==
    /\ lastEvent.type = "session_compact"
    /\ Len(readSkills) > 0
    /\ pendingReload

\* C5: a turn start always leaves the flag false; when the flag was false it
\* returns nothing and changes neither the flag, the tracked set nor the
\* registry.
C5_TurnStartClearsFlag ==
    [][StepOf("before_agent_start")
       => /\ ~pendingReload'
          /\ ~pendingReload
             => /\ lastEvent'.result = Undefined
                /\ UNCHANGED <<pendingReload, readSkills, knownSkills>>
      ]_vars

\* A turn start has consumed the flag and returned the nudge.
C5_Witness ==
    /\ Nudged
    /\ ~pendingReload
    /\ hist.trackedAtCompact

\* C6: after a session start the registry, the tracked set and the flag are a
\* function of the system prompt and the branch of that event alone, whatever
\* the state before; a second session start with the same context changes
\* nothing.
C6_SessionStartResets ==
    lastEvent.type = "session_start"
    => /\ knownSkills = getKnownSkillsFromContext(lastEvent.input)
       /\ readSkills = extractReadSkillsFromEntries(lastEvent.input.getBranch.returns.value, knownSkills)
       /\ ~pendingReload

\* A session start that found the flag set and a tracked set other than the
\* one the branch replays to.
C6_Witness ==
    /\ lastEvent.type = "session_start"
    /\ hist.compactions > 0
    /\ hist.trackedAtCompact
    /\ hist.turnsSince = 0
    /\ Len(readSkills) = 1
    /\ Len(knownSkills) = 2

\* The entries of the tracked set keyed by key.
EntriesKeyed(map, key) == {i \in 1..Len(map) : map[i].key = key}

ReadsNoSkill(event, known) ==
    /\ event.toolName = "read"
    /\ TypeOf(event.input.path) = "string"
    /\ isSkillPath(event.input.path.value, known) = Undefined

\* C13: a tool-call event changes neither the flag nor the registry, and a
\* read of a path that matches no known skill is handled like any other event
\* and leaves the tracked set as it was.
C13_ToolCallFrame ==
    [][StepOf("tool_call")
       => /\ pendingReload' = pendingReload
          /\ knownSkills' = knownSkills
          /\ ReadsNoSkill(lastEvent'.input, knownSkills) => readSkills' = readSkills
      ]_vars

\* With the flag set and two skills tracked, a read of a file outside every
\* skill directory was handled: flag, registry and tracked set are intact.
C13_Witness ==
    /\ lastEvent.type = "tool_call"
    /\ ReadsNoSkill(lastEvent.input, knownSkills)
    /\ lastEvent.input.input.path = Str(SkillsReadme)
    /\ pendingReload
    /\ Len(knownSkills) = 2
    /\ Len(readSkills) = 2

\* C14: while the registry is empty isSkillPath has no match for any path an
\* event can carry, the tracked set is empty, the flag is not set and the last
\* turn start returned no nudge, whatever tool-call, compaction and turn-start
\* events came before.
C14_EmptyRegistryTracksNothing ==
    knownSkills = <<>>
    => /\ \A event \in ToolCallEvents :
             TypeOf(event.input.path) = "string"
             => isSkillPath(event.input.path.value, knownSkills) = Undefined
       /\ readSkills = <<>>
       /\ ~pendingReload
       /\ ~Nudged

\* With an empty registry a compaction and a turn start have passed, and the
\* last event was a read of a file that is a skill file in other sessions.
C14_Witness ==
    /\ knownSkills = <<>>
    /\ hist.compactions = 1
    /\ hist.turnsSince = 1
    /\ hist.nudges = 0
    /\ lastEvent.type = "tool_call"
    /\ lastEvent.input = ReadOf(TddFile)

----------------------------------------------------------------------------
\* isSkillPath on its own: every registry and every candidate path over the
\* atoms "/" and "a", within the bounds.

MaxPathLen == 6
MaxFileLen == 4

PathAtoms == {"/", "a"}

StringsUpTo(n) == UNION {[1..k -> PathAtoms] : k \in 0..n}

\* The entry at position k of a registry is named after SkillNames[k].
SkillNames == <<TddName, DebuggingName>>
SkillDescriptions == <<TddDescription, DebuggingDescription>>

Registries ==
    UNION { { [k \in 1..n |-> [name |-> SkillNames[k],
                               description |-> SkillDescriptions[k],
                               filePath |-> files[k]]]
              : files \in [1..n -> StringsUpTo(MaxFileLen)] }
            : n \in 0..Len(SkillNames) }

MatchInit ==
    /\ knownSkills = <<>>
    /\ readSkills = <<>>
    /\ pendingReload = FALSE
    /\ lastEvent = NoEvent
    /\ hist = HistInit
    /\ \E path \in StringsUpTo(MaxPathLen), skills \in Registries :
           probe = [fn |-> "isSkillPath", path |-> path, skills |-> skills,
                    called |-> FALSE, result |-> Undefined]

MatchCall ==
    /\ probe.fn = "isSkillPath"
    /\ ~probe.called
    /\ probe' = [probe EXCEPT !.called = TRUE,
                              !.result = isSkillPath(probe.path, probe.skills)]
    /\ UNCHANGED <<knownSkills, readSkills, pendingReload, lastEvent, hist>>

MatchSpec == MatchInit /\ [][MatchCall]_vars

----------------------------------------------------------------------------
\* Properties of isSkillPath

RECURSIVE Segments(_)
\* The "/"-separated segments of a path: one more than it holds separators.
Segments(s) ==
    LET i == IndexOf(s, "/", 1)
    IN  IF i = 0
        THEN <<s>>
        ELSE <<SubSeq(s, 1, i - 1)>> \o Segments(SubSeq(s, i + 1, Len(s)))

\* filePath names a file: a directory part, a separator, a non-empty final segment.
NamesFile(filePath) ==
    LET segs == Segments(filePath)
    IN  Len(segs) >= 2 /\ segs[Len(segs)] # <<>>

\* filePath is a canonical absolute path of a file: it begins with the
\* separator and no other segment of it is empty.
CanonicalFile(filePath) ==
    LET segs == Segments(filePath)
    IN  /\ Len(segs) >= 2
        /\ segs[1] = <<>>
        /\ \A k \in 2..Len(segs) : segs[k] # <<>>

\* The directory of a skill: the segments of its filePath but the final one.
DirSegments(filePath) ==
    LET segs == Segments(filePath)
    IN  SubSeq(segs, 1, Len(segs) - 1)

\* path lies strictly inside the directory of filePath, at any depth.
Inside(path, filePath) ==
    LET dir == DirSegments(filePath)
        segs == Segments(path)
    IN  Len(segs) > Len(dir) /\ SubSeq(segs, 1, Len(dir)) = dir

\* The entry matches the path by its exact file or by its directory.
MatchesEntry(path, skill) ==
    \/ path = skill.filePath
    \/ /\ StartsWith(path, SkillDir(skill.filePath) \o <<"/">>)
       /\ path # SkillDir(skill.filePath)

Least(S) == CHOOSE i \in S : \A j \in S : i <= j

Called == probe.fn = "isSkillPath" /\ probe.called

ExactEntries == {k \in 1..Len(probe.skills) : probe.skills[k].filePath = probe.path}

\* C8 as stated, for registries of canonical absolute file paths: when the
\* path equals the filePath of some entry, the result is the skill of an
\* entry with that filePath.
C8_ExactFileReturnsItsEntry ==
    (/\ Called
     /\ \A k \in 1..Len(probe.skills) : CanonicalFile(probe.skills[k].filePath)
     /\ ExactEntries # {})
    => \E k \in ExactEntries : probe.result = TrackedOf(probe.skills[k])

\* C8 amended: when the path equals the filePath of some entry, isSkillPath
\* returns a match: the skill of the first entry with that filePath, unless the
\* path lies in the directory of an entry that comes before it in the
\* registry, and then the skill of the first such entry.
C8_ExactFileUnlessEarlierDirectory ==
    (Called /\ ExactEntries # {})
    => LET first == Least(ExactEntries)
           before == {j \in 1..(first - 1) :
                        /\ StartsWith(probe.path, SkillDir(probe.skills[j].filePath) \o <<"/">>)
                        /\ probe.path # SkillDir(probe.skills[j].filePath)}
       IN  /\ probe.result # Undefined
           /\ before = {} => probe.result = TrackedOf(probe.skills[first])
           /\ before # {} => probe.result = TrackedOf(probe.skills[Least(before)])

\* The path is the file of the second skill and lies in the directory of the
\* first, which is returned.
C8_Witness ==
    /\ Called
    /\ Len(probe.skills) = 2
    /\ CanonicalFile(probe.skills[1].filePath)
    /\ CanonicalFile(probe.skills[2].filePath)
    /\ probe.path = probe.skills[2].filePath
    /\ probe.path # probe.skills[1].filePath
    /\ probe.result = TrackedOf(probe.skills[1])

\* C9: for a registry whose filePaths name files, a path strictly inside the
\* directory of a skill (its filePath less the final segment), at any depth,
\* is attributed to the first skill that owns it; a path inside no skill's
\* directory (the directory itself, a parent or sibling directory, a sibling
\* whose name only begins with the directory's name) has no match.
C9_InsideDirectoryOnly ==
    (/\ Called
     /\ \A k \in 1..Len(probe.skills) : NamesFile(probe.skills[k].filePath))
    => LET owners == {k \in 1..Len(probe.skills) :
                        Inside(probe.path, probe.skills[k].filePath)}
       IN  IF owners = {}
           THEN probe.result = Undefined
           ELSE probe.result = TrackedOf(probe.skills[Least(owners)])

\* A path two levels below the directory of the only skill is attributed to it.
C9_Witness ==
    /\ Called
    /\ Len(probe.skills) = 1
    /\ NamesFile(probe.skills[1].filePath)
    /\ Len(DirSegments(probe.skills[1].filePath)) = 2
    /\ Len(Segments(probe.path)) = 4
    /\ probe.path # probe.skills[1].filePath
    /\ probe.result = TrackedOf(probe.skills[1])

\* C10: the result is the skill of the first registry entry that matches the
\* path, by exact file or by directory, and undefined when none matches.
C10_FirstMatchWins ==
    Called
    => LET hits == {k \in 1..Len(probe.skills) : MatchesEntry(probe.path, probe.skills[k])}
       IN  IF hits = {}
           THEN probe.result = Undefined
           ELSE probe.result = TrackedOf(probe.skills[Least(hits)])

\* Two entries with different files match the path; the first is returned.
C10_Witness ==
    /\ Called
    /\ Len(probe.skills) = 2
    /\ MatchesEntry(probe.path, probe.skills[1])
    /\ MatchesEntry(probe.path, probe.skills[2])
    /\ probe.skills[1].filePath # probe.skills[2].filePath
    /\ probe.result = TrackedOf(probe.skills[1])

\* C11: on every match the returned TrackedSkill is built from one registry
\* entry that matches the path: its path is that entry's filePath, its name
\* and description are that entry's, and when the candidate path is not the
\* entry's file the returned path is not the candidate path.
C11_MatchCarriesEntryFields ==
    (Called /\ probe.result # Undefined)
    => \E k \in 1..Len(probe.skills) :
          /\ MatchesEntry(probe.path, probe.skills[k])
          /\ probe.result.path = probe.skills[k].filePath
          /\ probe.result.name = probe.skills[k].name
          /\ probe.result.description = probe.skills[k].description
          /\ probe.path # probe.skills[k].filePath => probe.result.path # probe.path

\* A file below the directory of the second skill, which the first does not
\* own: the match carries the second entry's filePath, name and description.
C11_Witness ==
    /\ Called
    /\ Len(probe.skills) = 2
    /\ ~MatchesEntry(probe.path, probe.skills[1])
    /\ NamesFile(probe.skills[2].filePath)
    /\ Inside(probe.path, probe.skills[2].filePath)
    /\ probe.path # probe.skills[2].filePath
    /\ probe.result.path = probe.skills[2].filePath
    /\ probe.result.name = DebuggingName
    /\ probe.result.description = DebuggingDescription

----------------------------------------------------------------------------
\* History replay beside live tracking: the scanner is run over a branch, and
\* the tool calls of the branch are delivered one by one to the tool_call
\* handler of a tracker that starts with an empty tracked set.

MaxEntries == 3

RECURSIVE SeqsUpTo(_, _)
SeqsUpTo(S, n) ==
    IF n = 0
    THEN {<<>>}
    ELSE LET shorter == SeqsUpTo(S, n - 1)
         IN  shorter \cup {Append(q, x) : q \in {r \in shorter : Len(r) = n - 1}, x \in S}

Branches == SeqsUpTo(EntrySamples, MaxEntries)

ReplayRegistries == {parseSkillsFromSystemPrompt(text) : text \in Prompts}

RECURSIVE BlockEvents(_)
\* The tool_call events the host emits for the tool invocations of one
\* assistant message.
BlockEvents(blocks) ==
    IF blocks = <<>>
    THEN <<>>
    ELSE LET block == Head(blocks)
         IN  (IF block.type = "toolCall"
              THEN <<[toolName |-> block.name.value, input |-> block.arguments]>>
              ELSE <<>>)
             \o BlockEvents(Tail(blocks))

RECURSIVE LiveToolCalls(_)
\* The tool_call events of a branch, in order.
LiveToolCalls(entries) ==
    IF entries = <<>>
    THEN <<>>
    ELSE LET entry == Head(entries)
             assistant == /\ entry.type = "message"
                          /\ entry.message # Undefined
                          /\ entry.message.role = "assistant"
                          /\ entry.message.content # Undefined
         IN  (IF assistant THEN BlockEvents(entry.message.content.value) ELSE <<>>)
             \o LiveToolCalls(Tail(entries))

ReplayInit ==
    /\ readSkills = <<>>
    /\ pendingReload = FALSE
    /\ lastEvent = NoEvent
    /\ hist = HistInit
    /\ knownSkills \in ReplayRegistries
    /\ \E entries \in Branches :
           probe = [fn |-> "extractReadSkillsFromEntries", entries |-> entries,
                    scanned |-> FALSE, result |-> <<>>, delivered |-> 0]

ReplayScan ==
    /\ probe.fn = "extractReadSkillsFromEntries"
    /\ ~probe.scanned
    /\ probe' = [probe EXCEPT !.scanned = TRUE,
                              !.result = extractReadSkillsFromEntries(probe.entries, knownSkills)]
    /\ UNCHANGED <<knownSkills, readSkills, pendingReload, lastEvent, hist>>

ReplayDeliver ==
    /\ probe.fn = "extractReadSkillsFromEntries"
    /\ probe.delivered < Len(LiveToolCalls(probe.entries))
    /\ tool_call(LiveToolCalls(probe.entries)[probe.delivered + 1])
    /\ probe' = [probe EXCEPT !.delivered = @ + 1]
    /\ UNCHANGED <<lastEvent, hist>>

ReplayNext == ReplayScan \/ ReplayDeliver

ReplaySpec == ReplayInit /\ [][ReplayNext]_vars

\* C7: once the branch has been scanned and all its tool calls delivered to
\* the live handler, the scanner's mapping and the tracked set are the same
\* sequence of entries: same keys, same values, same order.
C7_ReplayEqualsLive ==
    (/\ probe.fn = "extractReadSkillsFromEntries"
     /\ probe.scanned
     /\ probe.delivered = Len(LiveToolCalls(probe.entries)))
    => probe.result = readSkills

\* A branch of three entries that replays to two tracked skills.
C7_Witness ==
    /\ probe.fn = "extractReadSkillsFromEntries"
    /\ probe.scanned
    /\ probe.delivered = Len(LiveToolCalls(probe.entries))
    /\ Len(probe.entries) = 3
    /\ Len(LiveToolCalls(probe.entries)) >= 3
    /\ Len(readSkills) = 2

\* The blocks of an entry, none when it has no message or no content.
BlocksOf(entry) ==
    IF entry.message = Undefined
    THEN <<>>
    ELSE IF entry.message.content = Undefined
         THEN <<>>
         ELSE entry.message.content.value

\* Block b of entry e counts as a read: the entry is a message of the
\* assistant, the block is a tool call of the tool read, and its path argument
\* is a string.
Qualifies(entries, e, b) ==
    LET entry == entries[e]
        block == BlocksOf(entry)[b]
    IN  /\ entry.type = "message"
        /\ entry.message # Undefined
        /\ entry.message.role = "assistant"
        /\ block.type = "toolCall"
        /\ block.name = Str("read")
        /\ block.arguments # Undefined
        /\ TypeOf(block.arguments.path) = "string"

\* The skills matched by the qualifying blocks of a branch.
QualifyingMatches(entries, known) ==
    { isSkillPath(BlocksOf(entries[e])[b].arguments.path.value, known) :
        <<e, b>> \in { eb \in UNION { {<<i, j>> : j \in 1..Len(BlocksOf(entries[i]))}
                                       : i \in 1..Len(entries) }
                          : Qualifies(entries, eb[1], eb[2]) } }
    \ {Undefined}

\* C15: the scanner counts a read only when the entry is a message, the role
\* is assistant, the block is a tool call, the tool is read and the path is a
\* string: the values of its result are exactly the skills matched by such
\* blocks, one entry each, each keyed by its path; nothing comes from other
\* entries, other roles, other tools or reads of files of no skill.
C15_OnlyQualifyingReadsCount ==
    (probe.fn = "extractReadSkillsFromEntries" /\ probe.scanned)
    => /\ {probe.result[i].value : i \in 1..Len(probe.result)}
            = QualifyingMatches(probe.entries, knownSkills)
       /\ Len(probe.result) = Cardinality(QualifyingMatches(probe.entries, knownSkills))
       /\ \A i \in 1..Len(probe.result) : probe.result[i].key = probe.result[i].value.path

\* A branch of a custom entry and a user message that both carry a read of a
\* skill file, and an assistant message that reads a reference file of tdd:
\* with both skills known the result is tdd alone.
C15_Witness ==
    /\ probe.fn = "extractReadSkillsFromEntries"
    /\ probe.scanned
    /\ Len(knownSkills) = 2
    /\ Len(probe.entries) = 3
    /\ probe.entries[1].type = "custom"
    /\ probe.entries[2].type = "message"
    /\ probe.entries[2].message # Undefined
    /\ probe.entries[2].message.role = "user"
    /\ probe.entries[3] = AssistantMessage(<<ReadBlock(Str(TddMocking))>>)
    /\ Len(probe.result) = 1
    /\ probe.result[1].key = TddFile

----------------------------------------------------------------------------
\* buildNudgeMessage on its own: the tracked set is any map of up to
\* MaxTracked skills keyed by their paths, and the function is called up to
\* MaxCalls times on it.

MaxTracked == 2
MaxCalls == 2

\* Tracked skills: a name, a description that may be empty, a path.
TrackedSamples ==
    [name : {TddName, DebuggingName},
     description : {TddDescription, DebuggingDescription, EmptyString},
     path : {TddFile, DebuggingFile, SkillsReadme}]

\* The maps the tracker can hold: each key is the path of its value, and no
\* key occurs twice.
TrackedSets ==
    { map \in SeqsUpTo({[key |-> t.path, value |-> t] : t \in TrackedSamples}, MaxTracked) :
        \A i, j \in 1..Len(map) : map[i].key = map[j].key => i = j }

NudgeInit ==
    /\ knownSkills = <<>>
    /\ readSkills \in TrackedSets
    /\ pendingReload = FALSE
    /\ lastEvent = NoEvent
    /\ hist = HistInit
    /\ probe = [fn |-> "buildNudgeMessage", results |-> <<>>]

\* One call buildNudgeMessage(readSkills); the function reads the size and the
\* values of the map and writes nothing.
NudgeCall ==
    /\ probe.fn = "buildNudgeMessage"
    /\ Len(probe.results) < MaxCalls
    /\ probe' = [probe EXCEPT !.results = Append(@, buildNudgeMessage(readSkills))]
    /\ UNCHANGED <<knownSkills, readSkills, pendingReload, lastEvent, hist>>

NudgeSpec == NudgeInit /\ [][NudgeCall]_vars

NudgeCalled == probe.fn = "buildNudgeMessage" /\ probe.results # <<>>

\* C16: buildNudgeMessage returns the empty string exactly when the tracked
\* set is empty.
C16_EmptyOnlyForEmptySet ==
    NudgeCalled
    => \A c \in 1..Len(probe.results) :
          probe.results[c] = EmptyString <=> readSkills = <<>>

\* The function was called on the empty set and returned the empty string.
C16_Witness ==
    /\ NudgeCalled
    /\ readSkills = <<>>
    /\ probe.results[1] = EmptyString

RECURSIVE Lines(_)
\* The lines of a text: the pieces between its line terminators.
Lines(s) ==
    LET i == IndexOf(s, "\n", 1)
    IN  IF i = 0
        THEN <<s>>
        ELSE <<SubSeq(s, 1, i - 1)>> \o Lines(SubSeq(s, i + 1, Len(s)))

\* C17: for a non-empty tracked set the nudge is the preamble, an empty line,
\* then for the k-th skill of the set, in iteration order, one line with its
\* name and path and one indented line quoting its description, then an empty
\* line and the closing directive, which holds MUST or REQUIRED and refers to
\* re-reading with the read tool; there are no other lines, so no skill is
\* left out or listed twice.
C17_NudgeStructure ==
    (NudgeCalled /\ readSkills # <<>>)
    => LET lines == Lines(probe.results[1])
           n == Len(readSkills)
       IN  /\ Len(lines) = 2 * n + 4
           /\ lines[1] = Preamble
           /\ lines[2] = EmptyString
           /\ \A k \in 1..n :
                 /\ lines[2 * k + 1]
                      = <<"- ">> \o readSkills[k].value.name
                        \o <<" (">> \o readSkills[k].value.path \o <<")">>
                 /\ lines[2 * k + 2]
                      = <<"  \"">> \o readSkills[k].value.description \o <<"\"">>
           /\ lines[2 * n + 3] = EmptyString
           /\ \/ Contains(lines[2 * n + 4], <<"MUST">>)
              \/ Contains(lines[2 * n + 4], <<"REQUIRED">>)
           /\ Contains(lines[2 * n + 4], <<"re-read">>)
           /\ Contains(lines[2 * n + 4], <<"read tool">>)

\* Two tracked skills of different names, one with an empty description: the
\* nudge has eight lines.
C17_Witness ==
    /\ NudgeCalled
    /\ Len(readSkills) = 2
    /\ readSkills[1].value.name # readSkills[2].value.name
    /\ readSkills[1].value.description = EmptyString
    /\ readSkills[2].value.description # EmptyString
    /\ Len(Lines(probe.results[1])) = 8

----------------------------------------------------------------------------
\* parseSkillsFromSystemPrompt on its own: the system prompt lists up to
\* MaxBlocks <skill> blocks, and a block holds each of the fields name,
\* description and location at most once, in any order, with or without text.

MaxBlocks == 2

FieldTags == {"name", "description", "location"}

OpenTag(tag) ==
    CASE tag = "name" -> "<name>"
      [] tag = "description" -> "<description>"
      [] tag = "location" -> "<location>"

CloseTag(tag) ==
    CASE tag = "name" -> "</name>"
      [] tag = "description" -> "</description>"
      [] tag = "location" -> "</location>"

FieldValues(tag) ==
    CASE tag = "name" -> {EmptyString, TddName, DebuggingName}
      [] tag = "description" -> {TddDescription}
      [] tag = "location" -> {EmptyString, TddFile}

FieldSamples == UNION { {[tag |-> tag, value |-> v] : v \in FieldValues(tag)} : tag \in FieldTags }

\* A block is the sequence of its fields, no tag twice.
BlockSamples ==
    { block \in SeqsUpTo(FieldSamples, Cardinality(FieldTags)) :
        \A i, j \in 1..Len(block) : block[i].tag = block[j].tag => i = j }

RECURSIVE RenderFields(_)
\* Each field on a line of its own.
RenderFields(block) ==
    IF block = <<>>
    THEN <<>>
    ELSE <<OpenTag(Head(block).tag)>> \o Head(block).value
         \o <<CloseTag(Head(block).tag), "\n">> \o RenderFields(Tail(block))

RenderBlock(block) == <<"<skill>", "\n">> \o RenderFields(block) \o <<"</skill>">>

RECURSIVE RenderBlocks(_)
RenderBlocks(blocks) ==
    IF blocks = <<>>
    THEN <<>>
    ELSE IF Len(blocks) = 1
         THEN RenderBlock(Head(blocks))
         ELSE RenderBlock(Head(blocks)) \o <<"\n">> \o RenderBlocks(Tail(blocks))

\* The system prompt that lists the blocks.
RenderPrompt(blocks) ==
    <<"Some preamble text.", "\n", "\n">> \o AvailableSkills(RenderBlocks(blocks))
    \o <<"\n", "\n", "More text.">>

ParseInit ==
    /\ knownSkills = <<>>
    /\ readSkills = <<>>
    /\ pendingReload = FALSE
    /\ lastEvent = NoEvent
    /\ hist = HistInit
    /\ \E blocks \in SeqsUpTo(BlockSamples, MaxBlocks) :
           probe = [fn |-> "parseSkillsFromSystemPrompt", blocks |-> blocks,
                    systemPrompt |-> RenderPrompt(blocks),
                    called |-> FALSE, result |-> <<>>]

ParseCall ==
    /\ probe.fn = "parseSkillsFromSystemPrompt"
    /\ ~probe.called
    /\ probe' = [probe EXCEPT !.called = TRUE,
                              !.result = parseSkillsFromSystemPrompt(probe.systemPrompt)]
    /\ UNCHANGED <<knownSkills, readSkills, pendingReload, lastEvent, hist>>

ParseSpec == ParseInit /\ [][ParseCall]_vars

----------------------------------------------------------------------------
\* Properties of parseSkillsFromSystemPrompt

Parsed == probe.fn = "parseSkillsFromSystemPrompt" /\ probe.called

\* The block holds the field tag.
HasTag(block, tag) == \E i \in 1..Len(block) : block[i].tag = tag

\* The text of the field tag of the block, empty when the block has none.
TextOf(block, tag) ==
    IF HasTag(block, tag)
    THEN block[CHOOSE i \in 1..Len(block) : block[i].tag = tag].value
    ELSE EmptyString

\* The block has a name and a location, neither empty.
Complete(block) ==
    TextOf(block, "name") # EmptyString /\ TextOf(block, "location") # EmptyString

EntryOf(block) ==
    [name |-> TextOf(block, "name"),
     description |-> TextOf(block, "description"),
     filePath |-> TextOf(block, "location")]

\* C19: the result holds one entry per skill block that has a name and a
\* location, in document order: its k-th entry is that of the k-th such block,
\* also when blocks repeat a name or a location; a prompt with no skill block
\* gives the empty list.
C19_OneEntryPerBlockInOrder ==
    Parsed
    => LET complete == SelectSeq(probe.blocks, Complete)
       IN  /\ Len(probe.result) = Len(complete)
           /\ \A k \in 1..Len(complete) : probe.result[k] = EntryOf(complete[k])
           /\ probe.blocks = <<>> => probe.result = <<>>

\* Two blocks of different names and the same location: two entries, in the
\* order of the blocks.
C19_Witness ==
    /\ Parsed
    /\ Len(probe.blocks) = 2
    /\ Len(probe.result) = 2
    /\ probe.result[1].name = DebuggingName
    /\ probe.result[2].name = TddName
    /\ probe.result[1].filePath = probe.result[2].filePath

\* The sequence without its k-th element.
Without(seq, k) == SubSeq(seq, 1, k - 1) \o SubSeq(seq, k + 1, Len(seq))

\* The fields of a block in the order name, description, location.
InFixedOrder(block) ==
    SelectSeq(block, LAMBDA f : f.tag = "name")
    \o SelectSeq(block, LAMBDA f : f.tag = "description")
    \o SelectSeq(block, LAMBDA f : f.tag = "location")

\* C20: a block whose name or location is missing or empty is dropped: the
\* result is that of the prompt without the block, and empty when every block
\* is such; a block with a name and a location and no description is kept,
\* with the empty string as its description; the order of the fields inside
\* the blocks does not matter: the result is that of the prompt with the
\* fields of each block in the order name, description, location.
C20_DropsIncompleteAnyFieldOrder ==
    Parsed
    => /\ \A k \in 1..Len(probe.blocks) :
             ~Complete(probe.blocks[k])
             => probe.result
                  = parseSkillsFromSystemPrompt(RenderPrompt(Without(probe.blocks, k)))
       /\ (\A k \in 1..Len(probe.blocks) : ~Complete(probe.blocks[k]))
          => probe.result = <<>>
       /\ \A k \in 1..Len(probe.blocks) :
             (Complete(probe.blocks[k]) /\ ~HasTag(probe.blocks[k], "description"))
             => \E r \in 1..Len(probe.result) :
                   probe.result[r] = [name |-> TextOf(probe.blocks[k], "name"),
                                      description |-> EmptyString,
                                      filePath |-> TextOf(probe.blocks[k], "location")]
       /\ probe.result
            = parseSkillsFromSystemPrompt(
                RenderPrompt([k \in 1..Len(probe.blocks) |-> InFixedOrder(probe.blocks[k])]))

\* A block with a location and an empty name, then a block that gives its
\* location before its name and has no description: the result is the entry
\* of the second block alone, with an empty description.
C20_Witness ==
    /\ Parsed
    /\ Len(probe.blocks) = 2
    /\ HasTag(probe.blocks[1], "name")
    /\ TextOf(probe.blocks[1], "name") = EmptyString
    /\ TextOf(probe.blocks[1], "location") # EmptyString
    /\ Len(probe.blocks[2]) = 2
    /\ probe.blocks[2][1].tag = "location"
    /\ probe.blocks[2][2].tag = "name"
    /\ probe.result = <<[name |-> TddName, description |-> EmptyString, filePath |-> TddFile]>>

----------------------------------------------------------------------------
\* parseSkillsFromSystemPrompt on prompts that are not as the host writes
\* them: a <skill> opening may lack its </skill>, and the text of a
\* description may hold escaped entities or a line terminator.

EscapedDescription == <<"Use for ", "&lt;", "special", "&gt;", " ", "&amp;", " cases.">>
TwoLineDescription == <<"Use when", "\n", "implementing features.">>

LooseFieldValues(tag) ==
    CASE tag = "name" -> {TddName, DebuggingName}
      [] tag = "description" -> {DebuggingDescription, EscapedDescription, TwoLineDescription}
      [] tag = "location" -> {TddFile, DebuggingFile}

LooseFieldSamples ==
    UNION { {[tag |-> tag, value |-> v] : v \in LooseFieldValues(tag)} : tag \in FieldTags }

LooseBlockSamples ==
    { block \in SeqsUpTo(LooseFieldSamples, Cardinality(FieldTags)) :
        \A i, j \in 1..Len(block) : block[i].tag = block[j].tag => i = j }

\* An item of the listing: the fields of a block, and whether the block is
\* closed by </skill>.
LooseItems == [fields : LooseBlockSamples, closed : BOOLEAN]

RenderItem(item) ==
    IF item.closed
    THEN RenderBlock(item.fields)
    ELSE <<"<skill>", "\n">> \o RenderFields(item.fields)

RECURSIVE RenderItems(_)
RenderItems(items) ==
    IF items = <<>>
    THEN <<>>
    ELSE IF Len(items) = 1
         THEN RenderItem(Head(items))
         ELSE RenderItem(Head(items)) \o <<"\n">> \o RenderItems(Tail(items))

LooseInit ==
    /\ knownSkills = <<>>
    /\ readSkills = <<>>
    /\ pendingReload = FALSE
    /\ lastEvent = NoEvent
    /\ hist = HistInit
    /\ \E items \in SeqsUpTo(LooseItems, MaxBlocks) :
           probe = [fn |-> "parseSkillsFromSystemPrompt", items |-> items,
                    systemPrompt |-> AvailableSkills(RenderItems(items)),
                    called |-> FALSE, result |-> <<>>]

LooseSpec == LooseInit /\ [][ParseCall]_vars

\* No field of the item holds a line terminator.
SingleLine(item) ==
    \A i \in 1..Len(item.fields) : IndexOf(item.fields[i].value, "\n", 1) = 0

\* C21 as stated, for field texts of one line: every entry of the result is
\* the entry of a block that is closed by </skill>; the fields of an
\* unterminated <skill> opening contribute to no entry.
C21_OnlyClosedBlocksContribute ==
    (Parsed /\ \A k \in 1..Len(probe.items) : SingleLine(probe.items[k]))
    => \A r \in 1..Len(probe.result) :
          \E k \in 1..Len(probe.items) :
             /\ probe.items[k].closed
             /\ probe.result[r] = EntryOf(probe.items[k].fields)

\* C22 as stated: when every block is closed and has a name and a location,
\* the k-th entry holds exactly the texts written between the tags of the
\* k-th block, escaped entities and texts of several lines included.
C22_FieldTextVerbatim ==
    (/\ Parsed
     /\ \A k \in 1..Len(probe.items) :
           /\ probe.items[k].closed
           /\ HasTag(probe.items[k].fields, "name")
           /\ HasTag(probe.items[k].fields, "location"))
    => /\ Len(probe.result) = Len(probe.items)
       /\ \A k \in 1..Len(probe.items) : probe.result[k] = EntryOf(probe.items[k].fields)

----------------------------------------------------------------------------
\* The tracker under a host whose history accessor fails or returns what its
\* type does not allow.

\* Branches with a null entry, a null content block, or a content that is a
\* number.
FaultyBranchSamples ==
    {<<Null>>,
     <<AssistantMessage(<<ReadBlock(Str(TddFile))>>), Null>>,
     <<AssistantMessage(<<ReadBlock(Str(TddFile)), Null>>)>>,
     <<[type |-> "message", message |-> [role |-> "assistant", content |-> Num(42)]]>>}

\* What ctx.sessionManager.getBranch() does: it raises, or returns undefined,
\* a well-typed branch or a faulty one.
BranchAccessors ==
    {Thrown, [returns |-> Undefined]}
    \cup {[returns |-> Array(branch)] : branch \in BranchSamples \cup FaultyBranchSamples}

FaultContexts == [getSystemPrompt : SystemPromptAccessors, getBranch : BranchAccessors]

\* The host delivers session_start; an error the handler raises reaches it.
FaultSessionStart ==
    \E ctx \in FaultContexts :
        /\ session_start(ctx)
        /\ lastEvent' = [type |-> "session_start", input |-> ctx,
                         result |-> IF SessionStartThrows(ctx) THEN Thrown ELSE Undefined]
        /\ hist' = [hist EXCEPT !.restartSince = TRUE]
        /\ UNCHANGED probe

FaultNext == FaultSessionStart \/ ToolCall \/ Compact \/ TurnStart

FaultSpec == Init /\ [][FaultNext]_vars

\* C23 as stated: no handler lets an exception reach the host, whatever the
\* system prompt accessor, the history accessor and the tool call arguments
\* are.
C23_NoHandlerThrows ==
    lastEvent.result # Thrown

----------------------------------------------------------------------------
\* Session start without a system prompt

\* The context gives no system prompt: the accessor is absent, raises, or
\* returns undefined.
NoSystemPrompt(ctx) ==
    \/ ctx.getSystemPrompt = Undefined
    \/ "throws" \in DOMAIN ctx.getSystemPrompt
    \/ ctx.getSystemPrompt.returns = Undefined

\* C24: a session start whose context gives no system prompt (accessor absent,
\* raising, or returning undefined) completes with the empty registry, the
\* tracked set rebuilt to empty whatever the history holds, and the flag
\* reset.
C24_NoPromptGivesEmptyRegistry ==
    (lastEvent.type = "session_start" /\ NoSystemPrompt(lastEvent.input))
    => /\ lastEvent.result = Undefined
       /\ knownSkills = <<>>
       /\ readSkills = <<>>
       /\ pendingReload = FALSE

\* A session start without a system prompt, right after a compaction that
\* found skills tracked, on a history that holds a read.
C24_Witness ==
    /\ lastEvent.type = "session_start"
    /\ "throws" \in DOMAIN lastEvent.input.getSystemPrompt
    /\ lastEvent.input.getBranch.returns.value # <<>>
    /\ hist.compactions > 0
    /\ hist.trackedAtCompact
    /\ hist.turnsSince = 0
    /\ knownSkills = <<>>

----------------------------------------------------------------------------
\* Tool calls that are no reads of a path

\* A tool_call event the live handler returns from at once: the tool is not
\* read, or the input carries no path or a path that is no string.
IgnoredEvent(event) ==
    \/ event.toolName # "read"
    \/ /\ event.input # Undefined
       /\ TypeOf(event.input.path) # "string"

\* A tool call block the scanner skips: the tool is not read, or the arguments
\* are absent or carry no path or a path that is no string.
IgnoredBlock(block) ==
    /\ block.type = "toolCall"
    /\ \/ block.name.value # "read"
       \/ TypeOf(ArgumentsPath(block.arguments)) # "string"

KeptBlock(block) == ~IgnoredBlock(block)

\* The branch with the ignored tool call blocks taken out.
WithoutIgnored(entries) ==
    [e \in 1..Len(entries) |->
        IF BlocksOf(entries[e]) = <<>>
        THEN entries[e]
        ELSE [entries[e] EXCEPT !.message.content =
                 Array(SelectSeq(entries[e].message.content.value, KeptBlock))]]

----------------------------------------------------------------------------
\* The handlers statement by statement

\* The closure variables of one tracker.
State == [knownSkills |-> knownSkills, readSkills |-> readSkills, pendingReload |-> pendingReload]

StateInit == [knownSkills |-> <<>>, readSkills |-> <<>>, pendingReload |-> FALSE]

\* A handler run from its first statement to its return, on the closure
\* variables in state: the variables it leaves and the value it returns.
Handle(state, event) ==
    CASE event.type = "session_start" ->
             LET known == getKnownSkillsFromContext(event.input)
             IN  IF SessionStartThrows(event.input)
                 THEN [state |-> [state EXCEPT !.knownSkills = known], result |-> Thrown]
                 ELSE [state |-> [knownSkills |-> known,
                                  readSkills |-> extractReadSkillsFromEntries(
                                                     event.input.getBranch.returns.value, known),
                                  pendingReload |-> FALSE],
                       result |-> Undefined]
      [] event.type = "tool_call" ->
             [state |-> [state EXCEPT !.readSkills =
                            tool_call_result(state.readSkills, state.knownSkills, event.input)],
              result |-> Undefined]
      [] event.type = "session_compact" ->
             [state |-> [state EXCEPT !.pendingReload =
                            IF Len(state.readSkills) > 0 THEN TRUE ELSE @],
              result |-> Undefined]
      [] event.type = "before_agent_start" ->
             IF ~state.pendingReload
             THEN [state |-> state, result |-> Undefined]
             ELSE LET nudge == buildNudgeMessage(state.readSkills)
                  IN  [state |-> [state EXCEPT !.pendingReload = FALSE],
                       result |-> IF nudge = EmptyString THEN Undefined ELSE NudgeMessage(nudge)]

\* The events the host delivers.
Events ==
    {[type |-> "session_start", input |-> ctx] : ctx \in Contexts}
    \cup {[type |-> "tool_call", input |-> event] : event \in ToolCallEvents}
    \cup {[type |-> "session_compact", input |-> Undefined],
          [type |-> "before_agent_start", input |-> Undefined]}

\* Handler runs started in one behaviour.
MaxHandlers == 3

\* Statement pc of the handler of event, on the closure variables in state:
\* the variables it leaves, the statement that comes next (0 when the handler
\* has returned) and the value returned.
Statement(state, event, pc) ==
    CASE event.type = "session_start" /\ pc = 1 ->
             [state |-> [state EXCEPT !.knownSkills = getKnownSkillsFromContext(event.input)],
              pc |-> 2, result |-> Undefined]
      [] event.type = "session_start" /\ pc = 2 ->
             IF SessionStartThrows(event.input)
             THEN [state |-> state, pc |-> 0, result |-> Thrown]
             ELSE [state |-> [state EXCEPT !.readSkills =
                                 extractReadSkillsFromEntries(
                                     event.input.getBranch.returns.value, state.knownSkills)],
                   pc |-> 3, result |-> Undefined]
      [] event.type = "session_start" /\ pc = 3 ->
             [state |-> [state EXCEPT !.pendingReload = FALSE], pc |-> 0, result |-> Undefined]
      [] event.type = "tool_call" /\ pc = 1 ->
             [state |-> state,
              pc |-> IF isToolCallEventType("read", event.input) THEN 2 ELSE 0,
              result |-> Undefined]
      [] event.type = "tool_call" /\ pc = 2 ->
             [state |-> state,
              pc |-> IF TypeOf(event.input.input.path) = "string" THEN 3 ELSE 0,
              result |-> Undefined]
      [] event.type = "tool_call" /\ pc = 3 ->
             LET match == isSkillPath(event.input.input.path.value, state.knownSkills)
             IN  [state |-> IF match # Undefined
                            THEN [state EXCEPT !.readSkills = MapSet(@, match.path, match)]
                            ELSE state,
                  pc |-> 0, result |-> Undefined]
      [] event.type = "session_compact" /\ pc = 1 ->
             [state |-> state,
              pc |-> IF Len(state.readSkills) > 0 THEN 2 ELSE 0,
              result |-> Undefined]
      [] event.type = "session_compact" /\ pc = 2 ->
             [state |-> [state EXCEPT !.pendingReload = TRUE], pc |-> 0, result |-> Undefined]
      [] event.type = "before_agent_start" /\ pc = 1 ->
             [state |-> state,
              pc |-> IF state.pendingReload THEN 2 ELSE 0,
              result |-> Undefined]
      [] event.type = "before_agent_start" /\ pc = 2 ->
             [state |-> [state EXCEPT !.pendingReload = FALSE], pc |-> 3, result |-> Undefined]
      [] event.type = "before_agent_start" /\ pc = 3 ->
             LET nudge == buildNudgeMessage(state.readSkills)
             IN  [state |-> state, pc |-> 0,
                  result |-> IF nudge = EmptyString THEN Undefined ELSE NudgeMessage(nudge)]

\* A session_start handler that awaits between its first and its second
\* statement.
SuspendsAfterRegistry(event, pc) ==
    event.type = "session_start" /\ pc = 2

\* The handler of event gives up the thread before its statement pc: the
\* handlers are async functions with no await in their bodies.
Suspends(event, pc) ==
    FALSE

NoRun == [event |-> [type |-> "none", input |-> Undefined]]

StepInit ==
    /\ knownSkills = <<>>
    /\ readSkills = <<>>
    /\ pendingReload = FALSE
    /\ lastEvent = NoEvent
    /\ hist = HistInit
    /\ probe = [fn |-> "handlers", tasks |-> <<>>, started |-> 0, last |-> NoRun]

\* Some handler holds the thread.
Busy == \E i \in 1..Len(probe.tasks) : probe.tasks[i].active

\* The host delivers an event: it can, once no handler holds the thread.
StepStart ==
    /\ probe.fn = "handlers"
    /\ ~Busy
    /\ probe.started < MaxHandlers
    /\ \E event \in Events :
           probe' = [probe EXCEPT
                        !.started = @ + 1,
                        !.tasks = Append(@, [event |-> event, pc |-> 1, active |-> TRUE,
                                             start |-> State])]
    /\ UNCHANGED <<knownSkills, readSkills, pendingReload, lastEvent, hist>>

\* The handler that holds the thread, or when none does a suspended one, runs
\* its next statement.
StepRun ==
    /\ probe.fn = "handlers"
    /\ \E i \in 1..Len(probe.tasks) :
          /\ probe.tasks[i].active \/ ~Busy
          /\ LET task == probe.tasks[i]
                 out == Statement(State, task.event, task.pc)
             IN  /\ knownSkills' = out.state.knownSkills
                 /\ readSkills' = out.state.readSkills
                 /\ pendingReload' = out.state.pendingReload
                 /\ probe' =
                        IF out.pc = 0
                        THEN [probe EXCEPT
                                 !.tasks = SubSeq(@, 1, i - 1) \o SubSeq(@, i + 1, Len(@)),
                                 !.last = [event |-> task.event, start |-> task.start,
                                           result |-> out.result]]
                        ELSE [probe EXCEPT
                                 !.tasks[i].pc = out.pc,
                                 !.tasks[i].active = ~Suspends(task.event, out.pc)]
    /\ UNCHANGED <<lastEvent, hist>>

StepNext == StepStart \/ StepRun

StepSpec == StepInit /\ [][StepNext]_vars

----------------------------------------------------------------------------
\* Several trackers in one process

\* The trackers: one per call of the extension's factory function.
Instances == {1, 2}

\* Events delivered in one behaviour.
MaxDeliveries == 4

\* The variables of every tracker held in one place, as they would be were
\* they declared at module level.
ScopeModule(i) ==
    0

\* The place that holds the variables of tracker i: they are declared with
\* let inside the factory function, so each call has its own.
Scope(i) ==
    i

Scopes == {Scope(i) : i \in Instances}

\* probe.cells holds the variables by place; probe.solo[i] holds what the
\* variables of tracker i are when it receives its own events and no other
\* tracker exists.
PairInit ==
    /\ knownSkills = <<>>
    /\ readSkills = <<>>
    /\ pendingReload = FALSE
    /\ lastEvent = NoEvent
    /\ hist = HistInit
    /\ probe = [fn |-> "instances",
                cells |-> [c \in Scopes |-> StateInit],
                solo |-> [i \in Instances |-> StateInit],
                delivered |-> 0,
                last |-> [instance |-> 0, result |-> Undefined, soloResult |-> Undefined]]

\* The host delivers an event to one tracker.
PairDeliver ==
    /\ probe.fn = "instances"
    /\ probe.delivered < MaxDeliveries
    /\ \E i \in Instances, event \in Events :
          LET out == Handle(probe.cells[Scope(i)], event)
              alone == Handle(probe.solo[i], event)
          IN  probe' = [probe EXCEPT
                           !.cells[Scope(i)] = out.state,
                           !.solo[i] = alone.state,
                           !.delivered = @ + 1,
                           !.last = [instance |-> i, result |-> out.result,
                                     soloResult |-> alone.result]]
    /\ UNCHANGED <<knownSkills, readSkills, pendingReload, lastEvent, hist>>

PairSpec == PairInit /\ [][PairDeliver]_vars

----------------------------------------------------------------------------
\* The message a turn start returns

\* C28: a turn start that finds the flag set and skills tracked returns one
\* message with customType "skill-recall-nudge", display true and the content
\* buildNudgeMessage gives for the tracked set; every other turn start returns
\* nothing.
C28_NudgeMessageShape ==
    [][StepOf("before_agent_start") =>
          IF pendingReload /\ readSkills # <<>>
          THEN /\ DOMAIN lastEvent'.result = {"message"}
               /\ lastEvent'.result.message.customType = "skill-recall-nudge"
               /\ lastEvent'.result.message.display = TRUE
               /\ lastEvent'.result.message.content = buildNudgeMessage(readSkills)
               /\ lastEvent'.result.message.content # EmptyString
          ELSE lastEvent'.result = Undefined]_vars

\* A turn start has returned the message for two tracked skills.
C28_Witness ==
    /\ lastEvent.type = "before_agent_start"
    /\ lastEvent.result # Undefined
    /\ lastEvent.result.message.content = buildNudgeMessage(readSkills)
    /\ Len(readSkills) = 2

----------------------------------------------------------------------------
\* The flag and the tracked set

\* C29: whenever the flag is set the tracked set is non-empty, so every turn
\* start that finds the flag set returns a nudge: the handler's return on an
\* empty nudge text is never taken.
C29_FlagImpliesTracked ==
    /\ [](pendingReload => readSkills # <<>>)
    /\ [][(StepOf("before_agent_start") /\ pendingReload)
          => (lastEvent'.result # Undefined /\ buildNudgeMessage(readSkills) # EmptyString)]_vars

\* The flag is set after a compaction, a session start that restored the
\* tracked set from the history having come before.
C29_Witness ==
    /\ pendingReload
    /\ readSkills # <<>>
    /\ lastEvent.type = "session_compact"
    /\ hist.compactions = 2
    /\ hist.turnsSince = 0

----------------------------------------------------------------------------
\* The reminder is delivered

\* The host goes on to start a turn whenever it can.
LiveSpec == Spec /\ WF_vars(TurnStart)

\* C30: after a compaction that found skills tracked, the first turn start
\* that follows with no session start between returns the nudge, and no later
\* turn start returns one until another compaction; with a host that goes on
\* to start turns, a set flag leads to the nudge or to a session start.
C30_ReminderDelivered ==
    /\ [][StepOf("before_agent_start") =>
             /\ (/\ hist.compactions > 0
                 /\ hist.trackedAtCompact
                 /\ ~hist.restartSince
                 /\ hist.turnsSince = 0)
                => (lastEvent'.result # Undefined /\ ~pendingReload')
             /\ hist.turnsSince >= 1 => lastEvent'.result = Undefined]_vars
    /\ (pendingReload ~> (Nudged \/ lastEvent.type = "session_start"))

\* The nudge of the second compaction has been returned, tool calls having
\* come between the compaction and the turn start.
C30_Witness ==
    /\ Nudged
    /\ hist.compactions = 2
    /\ hist.nudges = 2
    /\ hist.turnsSince = 1
    /\ Len(readSkills) = 2

----------------------------------------------------------------------------
\* A session start between a compaction and the turn start

\* C31: a session start that comes after a compaction and before the next
\* turn start cancels the reminder: it leaves the flag false, and the turn
\* start that follows returns nothing, whether or not the rebuilt tracked set
\* is empty.
C31_SessionStartCancelsReminder ==
    /\ [](lastEvent.type = "session_start" => ~pendingReload)
    /\ [][(/\ StepOf("before_agent_start")
           /\ hist.compactions > 0
           /\ hist.restartSince
           /\ hist.turnsSince = 0)
          => (~pendingReload /\ lastEvent'.result = Undefined)]_vars

\* A compaction found skills tracked, a session start rebuilt a non-empty
\* tracked set, and the turn start that followed returned nothing.
C31_Witness ==
    /\ lastEvent.type = "before_agent_start"
    /\ lastEvent.result = Undefined
    /\ hist.compactions > 0
    /\ hist.trackedAtCompact
    /\ hist.restartSince
    /\ hist.turnsSince = 1
    /\ readSkills # <<>>

----------------------------------------------------------------------------
\* The tracker with a record of what the compaction found and of the order of
\* the first matches

\* The keys of a Map in iteration order.
KeySeq(map) == [i \in 1..Len(map) |-> map[i].key]

\* The match the tool_call handler stores for the event, Undefined when it
\* stores none.
MatchOf(event, known) ==
    IF /\ isToolCallEventType("read", event)
       /\ event.input # Undefined
       /\ TypeOf(event.input.path) = "string"
    THEN isSkillPath(event.input.path.value, known)
    ELSE Undefined

\* The order of the first matches once the event is handled: a match whose key
\* is new goes to the end, any other event leaves the order as it is.
FirstMatched(order, event, known) ==
    LET match == MatchOf(event, known)
    IN  IF match # Undefined /\ ~Contains(order, <<match.path>>)
        THEN Append(order, match.path)
        ELSE order

RECURSIVE FirstMatchOrder(_, _, _)
\* The order of the first matches of a sequence of tool calls.
FirstMatchOrder(order, events, known) ==
    IF events = <<>>
    THEN order
    ELSE FirstMatchOrder(FirstMatched(order, Head(events), known), Tail(events), known)

\* Contexts of a session start, with a history that reads a skill again.
TraceContexts ==
    Contexts
    \cup [getSystemPrompt : {[returns |-> Str(PromptTwo)]},
          getBranch : {[returns |-> Array(<<AssistantMessage(<<ReadBlock(Str(TddFile))>>),
                                            AssistantMessage(<<ReadBlock(Str(DebuggingFile))>>),
                                            AssistantMessage(<<ReadBlock(Str(TddMocking))>>)>>)]}]

\* probe.atCompact is the tracked set as the last compaction found it;
\* probe.order lists the keys of the tracked set by the moment each was first
\* matched since the last session start.
TraceInit ==
    /\ knownSkills = <<>>
    /\ readSkills = <<>>
    /\ pendingReload = FALSE
    /\ lastEvent = NoEvent
    /\ hist = HistInit
    /\ probe = [fn |-> "trace", atCompact |-> <<>>, compactions |-> 0, turnsSince |-> 0,
                order |-> <<>>]

TraceSessionStart ==
    \E ctx \in TraceContexts :
        /\ session_start(ctx)
        /\ lastEvent' = [type |-> "session_start", input |-> ctx, result |-> Undefined]
        /\ probe' = [probe EXCEPT !.order =
                        FirstMatchOrder(<<>>, LiveToolCalls(ctx.getBranch.returns.value),
                                        knownSkills')]
        /\ UNCHANGED hist

TraceToolCall ==
    \E event \in ToolCallEvents :
        /\ tool_call(event)
        /\ lastEvent' = [type |-> "tool_call", input |-> event, result |-> Undefined]
        /\ probe' = [probe EXCEPT !.order = FirstMatched(@, event, knownSkills)]
        /\ UNCHANGED hist

TraceCompact ==
    /\ probe.compactions < MaxCompactions
    /\ session_compact
    /\ lastEvent' = [type |-> "session_compact", input |-> Undefined, result |-> Undefined]
    /\ probe' = [probe EXCEPT !.atCompact = readSkills, !.compactions = @ + 1,
                              !.turnsSince = 0]
    /\ UNCHANGED hist

TraceTurnStart ==
    /\ probe.turnsSince < MaxTurns
    /\ \E result \in {Undefined, NudgeResult} :
        /\ before_agent_start(result)
        /\ lastEvent' = [type |-> "before_agent_start", input |-> Undefined, result |-> result]
    /\ probe' = [probe EXCEPT !.turnsSince = @ + 1]
    /\ UNCHANGED hist

TraceNext == TraceSessionStart \/ TraceToolCall \/ TraceCompact \/ TraceTurnStart

TraceSpec == TraceInit /\ [][TraceNext]_vars

\* C32: the nudge lists the tracked set as it is at the turn start, not as the
\* compaction found it: its text is the one built from the current set, names
\* every skill tracked now, and differs from the text of the set at the
\* compaction when a skill was added since; and the first turn start after a
\* compaction that found the set empty returns nothing, whatever was read in
\* between.
C32_NudgeListsCurrentSet ==
    [][StepOf("before_agent_start") =>
          /\ lastEvent'.result # Undefined
             => /\ lastEvent'.result.message.content = buildNudgeMessage(readSkills)
                /\ \A i \in 1..Len(readSkills) :
                      /\ Contains(lastEvent'.result.message.content, readSkills[i].value.name)
                      /\ Contains(lastEvent'.result.message.content, readSkills[i].key)
                /\ readSkills # probe.atCompact
                   => lastEvent'.result.message.content # buildNudgeMessage(probe.atCompact)
          /\ (probe.compactions > 0 /\ probe.atCompact = <<>> /\ probe.turnsSince = 0)
             => lastEvent'.result = Undefined]_vars

\* The nudge names two skills, the second read after the compaction.
C32_Witness ==
    /\ Nudged
    /\ Len(probe.atCompact) = 1
    /\ Len(readSkills) = 2
    /\ probe.turnsSince = 1
    /\ Contains(lastEvent.result.message.content, readSkills[2].key)

\* A skill was read after a compaction that found nothing tracked, and the
\* turn start that followed returned nothing.
C32_WitnessEmpty ==
    /\ lastEvent.type = "before_agent_start"
    /\ lastEvent.result = Undefined
    /\ probe.compactions > 0
    /\ probe.atCompact = <<>>
    /\ probe.turnsSince = 1
    /\ readSkills # <<>>

----------------------------------------------------------------------------
\* isSkillPath as a function of the canonical path

\* Other candidate paths for the registry: every path as long as a filePath
\* can be, and a file next to the file of each entry.
OtherPaths(skills) ==
    StringsUpTo(MaxFileLen)
    \cup {SkillDir(skills[k].filePath) \o <<"/", "a">> : k \in 1..Len(skills)}

\* C33: for a fixed registry the match is a function of its path field.  The
\* match is the skill of the first entry with that filePath, also when several
\* entries have it; another candidate path whose match has the same path field
\* has the same match, and storing it under the key again leaves the stored
\* entry as it was.
C33_MatchIsFunctionOfPath ==
    (Called /\ probe.result # Undefined)
    => LET same == {k \in 1..Len(probe.skills) :
                       probe.skills[k].filePath = probe.result.path}
           stored == MapSet(<<>>, probe.result.path, probe.result)
       IN  /\ same # {}
           /\ probe.result = TrackedOf(probe.skills[Least(same)])
           /\ \A other \in OtherPaths(probe.skills) :
                 LET match == isSkillPath(other, probe.skills)
                 IN  (match # Undefined /\ match.path = probe.result.path)
                     => /\ match.name = probe.result.name
                        /\ match.description = probe.result.description
                        /\ MapSet(stored, match.path, match) = stored

\* Two entries with the same filePath and different names; a file of their
\* directory is attributed to the first, as is the file itself.
C33_Witness ==
    /\ Called
    /\ Len(probe.skills) = 2
    /\ probe.skills[1].filePath = probe.skills[2].filePath
    /\ probe.skills[1].name # probe.skills[2].name
    /\ probe.path # probe.skills[1].filePath
    /\ probe.result = TrackedOf(probe.skills[1])
    /\ isSkillPath(probe.skills[2].filePath, probe.skills) = probe.result

----------------------------------------------------------------------------
\* The tracked set and the registry

\* The filePaths of the registry.
RegistryFiles == {knownSkills[k].filePath : k \in 1..Len(knownSkills)}

\* C34: every entry of the tracked set is that of an entry of the current
\* registry: its key and its path are the filePath of a registry entry whose
\* name and description it carries; hence the tracked set never holds more
\* entries than the registry holds distinct filePaths, also after a session
\* start has replaced the registry.
C34_TrackedWithinRegistry ==
    /\ \A i \in 1..Len(readSkills) :
          \E k \in 1..Len(knownSkills) :
             /\ readSkills[i].key = knownSkills[k].filePath
             /\ readSkills[i].value = TrackedOf(knownSkills[k])
    /\ Len(readSkills) <= Cardinality(RegistryFiles)

\* A session start has replaced a registry of two skills, both tracked, by a
\* registry of one, and the history gave that one.
C34_Witness ==
    /\ lastEvent.type = "session_start"
    /\ hist.compactions > 0
    /\ hist.trackedAtCompact
    /\ Len(knownSkills) = 1
    /\ Len(readSkills) = 1
    /\ Len(lastEvent.input.getBranch.returns.value) = 3

----------------------------------------------------------------------------
\* The order of the tracked set

\* C35: the tracked set iterates in the order in which each skill was first
\* matched, in the history replayed at the session start and in the live tool
\* calls since; a read of a skill tracked already, of the same file or of
\* another file of its directory, moves nothing; and the nudge lists the
\* skills in that order.
C35_FirstMatchOrder ==
    /\ KeySeq(readSkills) = probe.order
    /\ Nudged
       => \A k \in 1..Len(probe.order) :
             Contains(Lines(lastEvent.result.message.content)[2 * k + 1],
                      <<" (">> \o probe.order[k] \o <<")">>)

\* tdd was matched first, debugging second, and the last event read another
\* file of tdd's directory.
C35_Witness ==
    /\ probe.order = <<TddFile, DebuggingFile>>
    /\ lastEvent.type = "tool_call"
    /\ lastEvent.input.toolName = "read"
    /\ lastEvent.input.input.path = Str(TddMocking)
    /\ probe.compactions > 0

\* The replay of a history that reads tdd, debugging and tdd again.
C35_WitnessReplay ==
    /\ lastEvent.type = "session_start"
    /\ Len(lastEvent.input.getBranch.returns.value) = 3
    /\ lastEvent.input.getBranch.returns.value[3] = AssistantMessage(<<ReadBlock(Str(TddMocking))>>)
    /\ probe.order = <<TddFile, DebuggingFile>>

----------------------------------------------------------------------------
\* What each handler writes

\* C36: the compaction handler and the turn-start handler change nothing but
\* the flag, the tool-call handler changes nothing but the tracked set, and
\* the registry changes in no handler but session start.
C36_HandlerFrames ==
    [][/\ StepOf("session_compact") => UNCHANGED <<readSkills, knownSkills>>
       /\ StepOf("before_agent_start") => UNCHANGED <<readSkills, knownSkills>>
       /\ StepOf("tool_call") => UNCHANGED <<pendingReload, knownSkills>>
       /\ knownSkills' # knownSkills => lastEvent'.type = "session_start"
      ]_vars

\* The second nudge has been returned: the flag is cleared, the two tracked
\* skills and the registry are in place.
C36_Witness ==
    /\ Nudged
    /\ ~pendingReload
    /\ hist.nudges = 2
    /\ Len(readSkills) = 2
    /\ Len(knownSkills) = 2

----------------------------------------------------------------------------
\* The objects the tracker and the scanner work on

\* Session starts in one behaviour.
MaxStarts == 2

\* extractReadSkillsFromEntries with its result kept in one Map that every
\* call writes to, the object at address 1.
extractShared(heap, entriesAt, skillsAt) ==
    [heap |-> [heap EXCEPT ![1] = ScanEntries(@, heap[entriesAt], heap[skillsAt])],
     result |-> 1]

\* extractReadSkillsFromEntries on a heap of objects: heap[entriesAt] is the
\* array of entries and heap[skillsAt] the registry it is given.  `new Map()`
\* is a new object, result.set is the only write, and the address of the new
\* object is returned.
extractOnHeap(heap, entriesAt, skillsAt) ==
    [heap |-> Append(heap, ScanEntries(<<>>, heap[entriesAt], heap[skillsAt])),
     result |-> Len(heap) + 1]

\* The contexts of the session starts: the registry of two skills or none,
\* on each history.
HeapContexts ==
    {ctx \in Contexts :
        ctx.getSystemPrompt \in {[returns |-> Str(PromptTwo)], [returns |-> Undefined]}}

\* probe.heap is the sequence of the objects allocated so far, probe.ref the
\* address of the Map the variable readSkills refers to, probe.started the
\* number of session starts.
HeapInit ==
    /\ knownSkills = <<>>
    /\ readSkills = <<>>
    /\ pendingReload = FALSE
    /\ lastEvent = NoEvent
    /\ hist = HistInit
    /\ probe = [fn |-> "heap", heap |-> << <<>> >>, ref |-> 1, started |-> 0,
                entriesAt |-> 0, skillsAt |-> 0]

\* session_start: the registry and the branch are new objects, the scanner
\* runs on them, and readSkills is made to refer to the object it returns.
HeapSessionStart ==
    /\ probe.fn = "heap"
    /\ probe.started < MaxStarts
    /\ \E ctx \in HeapContexts :
          LET known == getKnownSkillsFromContext(ctx)
              given == probe.heap \o <<known, ctx.getBranch.returns.value>>
              skillsAt == Len(probe.heap) + 1
              entriesAt == Len(probe.heap) + 2
              out == extractOnHeap(given, entriesAt, skillsAt)
          IN  /\ knownSkills' = out.heap[skillsAt]
              /\ readSkills' = out.heap[out.result]
              /\ pendingReload' = FALSE
              /\ lastEvent' = [type |-> "session_start", input |-> ctx, result |-> Undefined]
              /\ probe' = [probe EXCEPT !.heap = out.heap, !.ref = out.result,
                                        !.started = @ + 1,
                                        !.entriesAt = entriesAt, !.skillsAt = skillsAt]
    /\ UNCHANGED hist

\* tool_call: readSkills.set writes to the object readSkills refers to.
HeapToolCall ==
    /\ probe.fn = "heap"
    /\ \E event \in ToolCallEvents :
          /\ probe' = [probe EXCEPT !.heap[probe.ref] =
                          tool_call_result(@, knownSkills, event)]
          /\ readSkills' = probe'.heap[probe.ref]
          /\ lastEvent' = [type |-> "tool_call", input |-> event, result |-> Undefined]
    /\ UNCHANGED <<knownSkills, pendingReload, hist>>

HeapNext == HeapSessionStart \/ HeapToolCall

HeapSpec == HeapInit /\ [][HeapNext]_vars

\* C37: the scanner returns a new Map and writes to nothing it is given.  At a
\* session start the object readSkills refers to afterwards did not exist
\* before, every object that existed before (the former tracked set among
\* them) is as it was, the entries and the registry given to the scanner are
\* as the host and the parser made them, and the new Map holds the replay of
\* the branch and nothing of the former tracked set.
C37_ScannerReturnsFreshMapping ==
    [][probe'.started = probe.started + 1 =>
          /\ probe'.ref \notin 1..Len(probe.heap)
          /\ \A a \in 1..Len(probe.heap) : probe'.heap[a] = probe.heap[a]
          /\ probe'.heap[probe'.entriesAt] = lastEvent'.input.getBranch.returns.value
          /\ probe'.heap[probe'.skillsAt] = getKnownSkillsFromContext(lastEvent'.input)
          /\ readSkills' = probe'.heap[probe'.ref]
          /\ readSkills' = extractReadSkillsFromEntries(
                               lastEvent'.input.getBranch.returns.value, knownSkills')
      ]_vars

\* The second session start: the former tracked set, with two skills, is
\* still on the heap as it was, and readSkills refers to a new Map with one.
C37_Witness ==
    /\ probe.fn = "heap"
    /\ probe.started = 2
    /\ lastEvent.type = "session_start"
    /\ probe.ref = 7
    /\ Len(probe.heap[4]) = 2
    /\ Len(readSkills) = 1

----------------------------------------------------------------------------
\* The directory of a skill whose file lies directly under the root

\* filePath is "/" followed by one non-empty segment.
RootFile(filePath) ==
    /\ Len(filePath) >= 2
    /\ LastSlash(filePath) = 1

\* C38: for a filePath that names a file, the directory used for matching is
\* the filePath less its final segment; for a file directly under the root it
\* is the empty string, and every candidate path that begins with "/" is then
\* attributed to that entry or to an entry before it that matches.
C38_RootFileOwnsEveryPath ==
    Called
    => \A k \in 1..Len(probe.skills) :
          LET filePath == probe.skills[k].filePath
          IN  /\ NamesFile(filePath)
                 => Segments(SkillDir(filePath)) = DirSegments(filePath)
              /\ RootFile(filePath)
                 => /\ SkillDir(filePath) = EmptyString
                    /\ StartsWith(probe.path, <<"/">>)
                       => \E j \in 1..k :
                             /\ MatchesEntry(probe.path, probe.skills[j])
                             /\ probe.result = TrackedOf(probe.skills[j])

\* The second entry is a file directly under the root; a path three levels
\* deep that the first entry does not match is attributed to it.
C38_Witness ==
    /\ Called
    /\ Len(probe.skills) = 2
    /\ RootFile(probe.skills[2].filePath)
    /\ ~MatchesEntry(probe.path, probe.skills[1])
    /\ StartsWith(probe.path, <<"/">>)
    /\ Len(Segments(probe.path)) = 4
    /\ probe.result = TrackedOf(probe.skills[2])

----------------------------------------------------------------------------
\* The guard path !== skillDir

RECURSIVE isSkillPathNoGuard(_, _)
\* isSkillPath with the test path !== skillDir taken out of the directory
\* match.
isSkillPathNoGuard(path, skills) ==
    IF skills = <<>>
    THEN Undefined
    ELSE LET skill == Head(skills)
             skillDir == SkillDir(skill.filePath)
         IN  IF path = skill.filePath
             THEN TrackedOf(skill)
             ELSE IF StartsWith(path, skillDir \o <<"/">>)
                  THEN TrackedOf(skill)
                  ELSE isSkillPathNoGuard(path, Tail(skills))

\* C39: the guard path !== skillDir is redundant.  A path that starts with a
\* directory followed by "/" is never that directory, for every directory
\* string within the bound, and isSkillPath without the guard returns what
\* isSkillPath returns.
C39_GuardIsRedundant ==
    Called
    => /\ \A skillDir \in StringsUpTo(MaxFileLen) :
             StartsWith(probe.path, skillDir \o <<"/">>) => probe.path # skillDir
       /\ probe.result = isSkillPathNoGuard(probe.path, probe.skills)

\* A directory match: the path starts with the directory of the only entry
\* and "/", and is not its file.
C39_Witness ==
    /\ Called
    /\ Len(probe.skills) = 1
    /\ probe.path # probe.skills[1].filePath
    /\ StartsWith(probe.path, SkillDir(probe.skills[1].filePath) \o <<"/">>)
    /\ SkillDir(probe.skills[1].filePath) # EmptyString
    /\ probe.result = TrackedOf(probe.skills[1])
    /\ Len(probe.path) = Len(SkillDir(probe.skills[1].filePath)) + 1

=============================================================================
